---- MODULE Spec2Model ----
(***************************************************************************)
(* Verification model of the OSINT aggregation pipeline of                  *)
(* full-osint-framework: the Reddit "ultra" search service (query phases,   *)
(* retry wrapper, link extraction, deduplication, scoring, quality filter,  *)
(* ranking, result cache) and the /api/search routes that fan out to the    *)
(* providers.                                                               *)
(*                                                                          *)
(* Texts are TLA+ strings; the JavaScript regular expressions of the source *)
(* are written as data (sequences of pattern elements) and run by a small   *)
(* backtracking matcher, so that extraction, validation and normalisation   *)
(* are computed from the characters as the code computes them.              *)
(***************************************************************************)
EXTENDS Integers, Sequences, FiniteSets, TLC

(***************************************************************************)
(* Strings                                                                  *)
(***************************************************************************)
LowerLetters == "abcdefghijklmnopqrstuvwxyz"
UpperLetters == "ABCDEFGHIJKLMNOPQRSTUVWXYZ"
DigitChars == "0123456789"

Ch(s, i) == SubSeq(s, i, i)

CharsOf(s) == { Ch(s, i) : i \in 1..Len(s) }

LetterSet == CharsOf(LowerLetters) \cup CharsOf(UpperLetters)
\* [a-zA-Z0-9_]  (also \w)
IdSet == LetterSet \cup CharsOf(DigitChars) \cup {"_"}
\* [a-zA-Z0-9_-]
IdDashSet == IdSet \cup {"-"}
\* [a-zA-Z0-9]
AlnumSet == LetterSet \cup CharsOf(DigitChars)
\* \s
SpaceSet == {" ", "\t", "\n"}

IndexIn(c, s) ==
    IF \E i \in 1..Len(s) : Ch(s, i) = c
    THEN CHOOSE i \in 1..Len(s) : Ch(s, i) = c
    ELSE 0

\* [A-Z]
UpperSet == CharsOf(UpperLetters)

LowerChar(c) ==
    IF c \notin UpperSet THEN c ELSE Ch(LowerLetters, IndexIn(c, UpperLetters))

RECURSIVE toLowerCase(_)
\* String.prototype.toLowerCase
toLowerCase(s) ==
    IF Len(s) = 0 THEN ""
    ELSE IF Len(s) = 1 THEN LowerChar(s)
    ELSE LET h == Len(s) \div 2
         IN toLowerCase(SubSeq(s, 1, h)) \o toLowerCase(SubSeq(s, h + 1, Len(s)))

\* String.prototype.startsWith, at a 1-based position
StartsAt(text, pos, lit) ==
    /\ pos + Len(lit) - 1 <= Len(text)
    /\ SubSeq(text, pos, pos + Len(lit) - 1) = lit

\* String.prototype.includes
Includes(text, lit) ==
    \E p \in 1..(Len(text) + 1) : StartsAt(text, p, lit)

Min(a, b) == IF a < b THEN a ELSE b
Max(a, b) == IF a > b THEN a ELSE b

(***************************************************************************)
(* Regular expressions.  A pattern is a sequence of elements; each element  *)
(* is a record whose field t names its kind:                                *)
(*   lit   a literal (ci: compared case-insensitively, the /i flag)         *)
(*   alt   (?:a|b|c): alternatives, tried in order                          *)
(*   opt   (?:a|b)?: the alternatives in order, then the empty string       *)
(*   one   one character of a set, e.g. [:=]                                *)
(*   ws    \s* (min 0) or \s+ (min 1), greedy                               *)
(*   cap   the capture group: an optional first character class, then       *)
(*         between min and max characters of a class, greedy                *)
(*   la4   (?=\s|$|[^a-zA-Z0-9_])                                           *)
(*   la9   (?=\s+(?:telegram|channel|group|chat)), /i                       *)
(*   bos   (?:^|\s)                                                         *)
(*   wb    \b                                                               *)
(* Matching backtracks through the choices in the order a JavaScript       *)
(* engine tries them and returns the first complete match.                  *)
(***************************************************************************)
Lit(s) == [t |-> "lit", s |-> s, ci |-> FALSE]
ILit(s) == [t |-> "lit", s |-> s, ci |-> TRUE]
Alt(a) == [t |-> "alt", alts |-> a, ci |-> FALSE]
IAlt(a) == [t |-> "alt", alts |-> a, ci |-> TRUE]
Opt(a) == [t |-> "opt", alts |-> a, ci |-> FALSE]
IOpt(a) == [t |-> "opt", alts |-> a, ci |-> TRUE]
One(set) == [t |-> "one", set |-> set]
Ws(min) == [t |-> "ws", min |-> min]
Cap(set, min, max) == [t |-> "cap", first |-> {}, set |-> set, min |-> min, max |-> max]
CapF(first, set, min, max) == [t |-> "cap", first |-> first, set |-> set, min |-> min, max |-> max]
La4 == [t |-> "la4"]
La9 == [t |-> "la9"]
Bos == [t |-> "bos"]
Wb == [t |-> "wb"]
\* the upper bound of + and * repetitions
Unbounded == 0 - 1

NoMatch == [ok |-> FALSE, end |-> 0, cap |-> ""]

\* how many consecutive characters of set start at pos, at most max (max < 0: no limit)
RunLen(text, pos, set, max) ==
    LET rest == Len(text) - pos + 1
        lim == Max(0, IF max < 0 THEN rest ELSE Min(max, rest))
        stops == { n \in 0..(lim - 1) : Ch(text, pos + n) \notin set }
    IN IF stops = {} THEN lim
       ELSE CHOOSE n \in stops : \A o \in stops : n <= o

IsWordChar(text, pos) == pos >= 1 /\ pos <= Len(text) /\ Ch(text, pos) \in IdSet

RECURSIVE MatchFrom(_, _, _, _, _, _)
RECURSIVE TryAlts(_, _, _, _, _, _, _, _)
RECURSIVE TryLens(_, _, _, _, _, _, _, _, _)

\* the elements k.. of pat matched at pos; low is text lowercased
MatchFrom(pat, k, text, low, pos, cap) ==
    IF k > Len(pat) THEN [ok |-> TRUE, end |-> pos, cap |-> cap]
    ELSE LET e == pat[k] IN
      CASE e.t = "lit" ->
             IF StartsAt(IF e.ci THEN low ELSE text, pos, e.s)
             THEN MatchFrom(pat, k + 1, text, low, pos + Len(e.s), cap)
             ELSE NoMatch
        [] e.t = "alt" -> TryAlts(pat, k, text, low, pos, cap, 1, FALSE)
        [] e.t = "opt" -> TryAlts(pat, k, text, low, pos, cap, 1, TRUE)
        [] e.t = "one" ->
             IF pos <= Len(text) /\ Ch(text, pos) \in e.set
             THEN MatchFrom(pat, k + 1, text, low, pos + 1, cap)
             ELSE NoMatch
        [] e.t = "ws" ->
             TryLens(pat, k, text, low, pos, cap,
                     RunLen(text, pos, SpaceSet, Unbounded), e.min, FALSE)
        [] e.t = "cap" ->
             IF e.first = {}
             THEN TryLens(pat, k, text, low, pos, cap,
                          RunLen(text, pos, e.set, e.max), e.min, TRUE)
             ELSE IF pos <= Len(text) /\ Ch(text, pos) \in e.first
                  THEN TryLens(pat, k, text, low, pos, cap,
                               1 + RunLen(text, pos + 1, e.set, e.max), 1 + e.min, TRUE)
                  ELSE NoMatch
        [] e.t = "la4" ->
             IF pos > Len(text) \/ Ch(text, pos) \notin IdSet
             THEN MatchFrom(pat, k + 1, text, low, pos, cap)
             ELSE NoMatch
        [] e.t = "la9" ->
             LET n == RunLen(text, pos, SpaceSet, Unbounded) IN
             IF n >= 1 /\ \E w \in {"telegram", "channel", "group", "chat"} :
                             StartsAt(low, pos + n, w)
             THEN MatchFrom(pat, k + 1, text, low, pos, cap)
             ELSE NoMatch
        [] e.t = "bos" ->
             IF pos = 1
             THEN LET r == MatchFrom(pat, k + 1, text, low, pos, cap) IN
                  IF r.ok \/ ~(pos <= Len(text) /\ Ch(text, pos) \in SpaceSet) THEN r
                  ELSE MatchFrom(pat, k + 1, text, low, pos + 1, cap)
             ELSE IF pos <= Len(text) /\ Ch(text, pos) \in SpaceSet
                  THEN MatchFrom(pat, k + 1, text, low, pos + 1, cap)
                  ELSE NoMatch
        [] e.t = "wb" ->
             IF IsWordChar(text, pos - 1) /= IsWordChar(text, pos)
             THEN MatchFrom(pat, k + 1, text, low, pos, cap)
             ELSE NoMatch

\* the alternatives j.. of element k, then (for an optional group) the empty string
TryAlts(pat, k, text, low, pos, cap, j, optional) ==
    LET e == pat[k] IN
    IF j > Len(e.alts)
    THEN IF optional THEN MatchFrom(pat, k + 1, text, low, pos, cap) ELSE NoMatch
    ELSE LET r == IF StartsAt(IF e.ci THEN low ELSE text, pos, e.alts[j])
                  THEN MatchFrom(pat, k + 1, text, low, pos + Len(e.alts[j]), cap)
                  ELSE NoMatch
         IN IF r.ok THEN r
            ELSE TryAlts(pat, k, text, low, pos, cap, j + 1, optional)

\* a greedy repetition of element k: len characters, then fewer, down to min
TryLens(pat, k, text, low, pos, cap, len, min, capture) ==
    LET After(n) == MatchFrom(pat, k + 1, text, low, pos + n,
                              IF capture THEN SubSeq(text, pos, pos + n - 1) ELSE cap)
    IN IF len < min THEN NoMatch
       ELSE LET r == After(len) IN
            IF r.ok THEN r
            ELSE LET fewer == { n \in min..(len - 1) : After(n).ok } IN
                 IF fewer = {} THEN NoMatch
                 ELSE After(CHOOSE n \in fewer : \A o \in fewer : n >= o)

RECURSIVE ExecFrom(_, _, _, _)
\* while ((match = pattern.exec(text)) !== null) with the /g flag: the matches
\* left to right, each [m0 |-> match[0], m1 |-> match[1]]
ExecFrom(pat, text, low, from) ==
    LET starts == { p \in from..Len(text) : MatchFrom(pat, 1, text, low, p, "").ok } IN
    IF starts = {} THEN << >>
    ELSE LET p == CHOOSE q \in starts : \A o \in starts : q <= o
             r == MatchFrom(pat, 1, text, low, p, "")
         IN << [m0 |-> SubSeq(text, p, r.end - 1), m1 |-> r.cap] >>
            \o ExecFrom(pat, text, low, IF r.end > p THEN r.end ELSE p + 1)

ExecAll(pat, text) == ExecFrom(pat, text, toLowerCase(text), 1)

\* RegExp.prototype.test for a pattern without the /g flag
Test(pat, text) ==
    LET low == toLowerCase(text) IN
    \E p \in 1..(Len(text) + 1) : MatchFrom(pat, 1, text, low, p, "").ok

(***************************************************************************)
(* Confidence arithmetic.  calculateUsernameSimilarity returns a fraction   *)
(* (maxLen - distance) / maxLen, so a confidence need not be an integer.    *)
(* Confidences and similarities are kept exactly, as integers in units of   *)
(* 1/Scale: Scale is a common multiple of every length up to 12 and of the  *)
(* lengths of the identifiers the model draws (at most 12, and 22).         *)
(***************************************************************************)
Scale == 8 * 9 * 5 * 7 * 11
Pt(n) == n * Scale
\* a variant without the clamp
ClampNone(c) == c

\* Math.min(Math.max(confidence, 0), 100)
Clamp(c) == Min(Max(c, 0), Pt(100))

(***************************************************************************)
(* RedditUltraSearchService: utilities                                      *)
(***************************************************************************)
RECURSIVE LevRow(_, _, _, _, _)
\* one row of the matrix of levenshteinDistance: row[0] = i, then row[j] for j = 1..Len(str1);
\* prev is row i-1, c is str2.charAt(i-1); rows are sequences, row[j] at index j+1
LevRow(prev, str1, c, i, acc) ==
    LET j == Len(acc) IN
    IF j = 0 THEN LevRow(prev, str1, c, i, << i >>)
    ELSE IF j > Len(str1) THEN acc
    ELSE LevRow(prev, str1, c, i,
                Append(acc,
                       IF c = Ch(str1, j)
                       THEN prev[j]
                       ELSE Min(prev[j] + 1, Min(acc[j] + 1, prev[j + 1] + 1))))

RECURSIVE LevRows(_, _, _)
\* the matrix, row by row: matrix[i] at index i+1, for i = 0..Len(str2)
LevRows(matrix, str1, str2) ==
    LET i == Len(matrix) IN
    IF i > Len(str2) THEN matrix
    ELSE LevRows(Append(matrix, LevRow(matrix[i], str1, Ch(str2, i), i, << >>)), str1, str2)

levenshteinDistance(str1, str2) ==
    LevRows(<< [j \in 1..(Len(str1) + 1) |-> j - 1] >>, str1, str2)[Len(str2) + 1][Len(str1) + 1]

\* the similarity in units of 1/Scale
calculateUsernameSimilarity(username1, username2) ==
    LET u1 == toLowerCase(username1)
        u2 == toLowerCase(username2)
        maxLen == Max(Len(u1), Len(u2))
    IN IF u1 = u2 THEN Scale
       ELSE IF Includes(u1, u2) \/ Includes(u2, u1) THEN (8 * Scale) \div 10
       ELSE Max(0, ((maxLen - levenshteinDistance(u1, u2)) * Scale) \div maxLen)

\* > 0.6
isSimilarToSearchUsername(username, searchUsername) ==
    10 * calculateUsernameSimilarity(username, searchUsername) > 6 * Scale

commonWords ==
    { "telegram", "channel", "group", "admin", "support", "help",
      "about", "contact", "join", "invite", "link", "chat",
      "the", "and", "for", "are", "with", "this", "that",
      "news", "info", "update", "post", "share", "here", "there",
      "official", "main", "real", "true", "new", "old" }

isCommonWord(word) == toLowerCase(word) \in commonWords

suspiciousWords ==
    { "admin", "support", "help", "bot", "official",
      "scam", "fake", "test", "example", "sample" }

isSuspiciousUsername(username) == toLowerCase(username) \in suspiciousWords

\* /^[a-zA-Z][a-zA-Z0-9_]*[a-zA-Z0-9]$/
UsernameShape(username) ==
    /\ Len(username) >= 2
    /\ Ch(username, 1) \in LetterSet
    /\ \A i \in 2..(Len(username) - 1) : Ch(username, i) \in IdSet
    /\ Ch(username, Len(username)) \in AlnumSet

isValidTelegramUsername(username) ==
    /\ username /= ""
    /\ Len(username) >= 5
    /\ Len(username) <= 32
    /\ UsernameShape(username)
    /\ ~isCommonWord(username)

\* the direct tests; the four word-boundary regular expressions that follow them in
\* the source match only where the username itself occurs, which the first test covers
flexibleUsernameMatch(text, username) ==
    LET usernameLower == toLowerCase(username)
        textLower == toLowerCase(text)
        minorVariations ==
            { usernameLower \o "s",
              usernameLower \o "er",
              SubSeq(usernameLower, 1, Len(usernameLower) - 1),
              SubSeq(usernameLower, 2, Len(usernameLower)) }
    IN \/ Includes(textLower, usernameLower)
       \/ Includes(textLower, "@" \o usernameLower)
       \/ Includes(textLower, "/" \o usernameLower)
       \/ Includes(textLower, "t.me/" \o usernameLower)
       \/ \E v \in minorVariations : Includes(textLower, v)

\* url.toLowerCase().replace(/^https?:\/\//, '').replace(/^www\./, '').replace(/\/$/, '')
StripPrefix(s, lit) == IF StartsAt(s, 1, lit) THEN SubSeq(s, Len(lit) + 1, Len(s)) ELSE s
StripScheme(s) ==
    IF StartsAt(s, 1, "https://") THEN StripPrefix(s, "https://") ELSE StripPrefix(s, "http://")
StripTrailingSlash(s) ==
    IF Len(s) >= 1 /\ Ch(s, Len(s)) = "/" THEN SubSeq(s, 1, Len(s) - 1) ELSE s

normalizeTelegramUrl(url) ==
    StripTrailingSlash(StripPrefix(StripScheme(toLowerCase(url)), "www."))

constructTelegramUrl(username, isInviteLink, originalUrl) ==
    IF isInviteLink /\ originalUrl /= ""
    THEN IF StartsAt(originalUrl, 1, "http") THEN originalUrl ELSE "https://" \o originalUrl
    ELSE "https://t.me/" \o username

(***************************************************************************)
(* Raw hits.  A post is what the Reddit API returns for one item; a hit     *)
(* (the source's "result") is what createResultFromPost makes of it.        *)
(***************************************************************************)
SchemeOpt == Opt(<< "https://", "http://" >>)
WwwOpt == Opt(<< "www." >>)

\* the three patterns of extractTelegramLinks
linkPatterns ==
    << << SchemeOpt, WwwOpt, Lit("t.me/"), Cap(IdSet, 5, 32) >>,
       << SchemeOpt, WwwOpt, Lit("telegram.me/"), Cap(IdSet, 5, 32) >>,
       << SchemeOpt, WwwOpt, Lit("t.me/joinchat/"), Cap(IdDashSet, 22, 22) >> >>

RECURSIVE ConcatAll(_)
\* the concatenation of a sequence of sequences
ConcatAll(ss) == IF ss = << >> THEN << >> ELSE Head(ss) \o ConcatAll(Tail(ss))


extractTelegramLinks(postData) ==
    LET text == postData.title \o " " \o postData.selftext \o " " \o postData.url
        OfMatch(m) == [url |-> m.m0, username |-> m.m1,
                       type |-> IF Includes(m.m0, "joinchat") THEN "invite" ELSE "direct"]
        OfPattern(pat) == LET ms == ExecAll(pat, text)
                          IN [j \in 1..Len(ms) |-> OfMatch(ms[j])]
    IN ConcatAll([i \in 1..Len(linkPatterns) |-> OfPattern(linkPatterns[i])])

\* data.selftext || generateDescription(data, username); the bullet that joins the
\* parts is written " - "
generateDescription(data, username) ==
    LET p1 == IF data.subreddit /= "" THEN << "r/" \o data.subreddit >> ELSE << >>
        p2 == IF data.score /= 0 THEN << ToString(data.score) \o " points" >> ELSE << >>
        p3 == IF data.num_comments /= 0
              THEN << ToString(data.num_comments) \o " commentaires" >> ELSE << >>
        parts == p1 \o p2 \o p3
        Join[i \in 1..Len(parts)] ==
            IF i = 1 THEN parts[1] ELSE Join[i - 1] \o " - " \o parts[i]
    IN IF Len(parts) > 0 THEN Join[Len(parts)] ELSE "Post mentionnant " \o username

calculateBasicConfidence(data, username) ==
    LET c0 == Pt(50)
        c1 == c0 + (IF data.score > 10 THEN Pt(10) ELSE 0)
        c2 == c1 + (IF data.score > 50 THEN Pt(15) ELSE 0)
        c3 == c2 + (IF data.score > 100 THEN Pt(20) ELSE 0)
        c4 == c3 + (IF data.num_comments > 5 THEN Pt(5) ELSE 0)
        c5 == c4 + (IF data.num_comments > 20 THEN Pt(10) ELSE 0)
        subreddit == toLowerCase(data.subreddit)
        c6 == c5 + (IF Includes(subreddit, "telegram") THEN Pt(25) ELSE 0)
        c7 == c6 + (IF Includes(subreddit, "crypto") THEN Pt(15) ELSE 0)
        c8 == c7 - (IF data.score < 0 THEN Pt(20) ELSE 0)
    IN Clamp(c8)

createResultFromPost(data, username, method) ==
    [ url |-> "https://reddit.com" \o data.permalink,
      title |-> IF data.title /= "" THEN data.title ELSE "Sans titre",
      description |-> IF data.selftext /= "" THEN data.selftext
                      ELSE generateDescription(data, username),
      confidence |-> calculateBasicConfidence(data, username),
      subreddit |-> data.subreddit,
      score |-> data.score,
      searchMethod |-> method,
      telegramLinks |-> extractTelegramLinks(data) ]

(***************************************************************************)
(* Link extraction                                                          *)
(***************************************************************************)
\* the array ultraPatterns of ultraAdvancedLinkExtraction, indices 0..16 at 1..17
ultraPatterns ==
    << << SchemeOpt, WwwOpt, Lit("t.me/"), Cap(IdSet, 5, 32) >>,
       << SchemeOpt, WwwOpt, Lit("telegram.me/"), Cap(IdSet, 5, 32) >>,
       << SchemeOpt, WwwOpt, Lit("t.me/joinchat/"), Cap(IdDashSet, 22, 22) >>,
       << SchemeOpt, WwwOpt, Lit("t.me/+"), Cap(IdDashSet, 1, Unbounded) >>,
       << Lit("@"), CapF(LetterSet, IdSet, 4, 31), La4 >>,
       << Lit("telegram.me/"), Cap(IdSet, 5, 32) >>,
       << Lit("t.me/"), Cap(IdSet, 5, 32) >>,
       << IAlt(<< "telegram", "tg", "channel", "group" >>), Ws(0), One({":", "="}), Ws(0),
          Opt(<< "@" >>), Cap(IdSet, 5, 32) >>,
       << IAlt(<< "join", "follow", "check" >>), Ws(1), Opt(<< "@" >>), Cap(IdSet, 5, 32) >>,
       << Bos, Cap(IdSet, 5, 32), La9 >>,
       << ILit("t"), Ws(0), Lit("."), Ws(0), ILit("me"), Ws(0), Lit("/"), Ws(0),
          Cap(IdSet, 1, Unbounded) >>,
       << ILit("telegram"), Ws(0), Lit("."), Ws(0), ILit("me"), Ws(0), Lit("/"), Ws(0),
          Cap(IdSet, 1, Unbounded) >>,
       << ILit("t"), Opt(<< "[" >>), Lit("."), Opt(<< "]" >>), ILit("me/"),
          Cap(IdSet, 1, Unbounded) >>,
       << ILit("telegram"), Opt(<< "[" >>), Lit("."), Opt(<< "]" >>), ILit("me/"),
          Cap(IdSet, 1, Unbounded) >>,
       << IAlt(<< "t", "telegram" >>), Ws(0), One({"-", "_", "."}), Ws(0), ILit("me"), Ws(0),
          One({"-", "/", "_"}), Ws(0), Cap(IdSet, 1, Unbounded) >>,
       << IAlt(<< "channel", "group", "chat", "community" >>), Ws(0), One({":", "-", "="}),
          Ws(0), Opt(<< "@" >>), Cap(IdSet, 5, 32) >>,
       << IAlt(<< "contact", "reach", "find" >>), Ws(1), IAlt(<< "me", "us", "them" >>),
          Ws(1), IOpt(<< "at", "on" >>), Ws(0), Opt(<< "@" >>), Cap(IdSet, 5, 32) >> >>

\* patternBonuses[patternIndex] || 10, patternIndex counted from 0
patternBonuses == << 25, 25, 30, 30, 15, 20, 20, 10, 15, 10 >>
PatternBonus(patternIndex) ==
    IF patternIndex + 1 <= Len(patternBonuses) THEN patternBonuses[patternIndex + 1] ELSE 10

calculateAdvancedConfidence(extractedUsername, sourceResult, searchUsername, patternIndex) ==
    LET c0 == Pt(50) + Pt(PatternBonus(patternIndex))
        similarity == calculateUsernameSimilarity(extractedUsername, searchUsername)
        c1 == c0 + similarity * 30
        redditScore == sourceResult.score
        c2 == c1 + (IF redditScore > 10 THEN Pt(10) ELSE 0)
        c3 == c2 + (IF redditScore > 50 THEN Pt(15) ELSE 0)
    IN Clamp(c3)

\* metadata.redditSource of a candidate
RedditSourceOf(sourceResult) ==
    [ postUrl |-> sourceResult.url,
      postTitle |-> sourceResult.title,
      subreddit |-> sourceResult.subreddit,
      redditScore |-> sourceResult.score,
      foundIn |-> "r/" \o (IF sourceResult.subreddit /= "" THEN sourceResult.subreddit
                           ELSE "unknown") ]

\* A candidate.  isInviteLink and patternMatched are left undefined by
\* createUltraTelegramResult and by the inference pass: the code reads isInviteLink
\* only as a truth value, for which undefined is FALSE; patternMatched is not read.
\* mergedSources is undefined until the first merge and read as `|| []`.
\* origin is an annotation of the model, not a field of the source: it records which
\* of the three methods of extractAllTelegramLinksUltra made the candidate.
createUltraTelegramResult(link, sourceResult, searchUsername) ==
    [ url |-> constructTelegramUrl(link.username, FALSE, link.url),
      username |-> link.username,
      confidence |-> calculateAdvancedConfidence(link.username, sourceResult, searchUsername, 0),
      searchMethod |-> "ultra_extraction",
      origin |-> "metadata",
      isInviteLink |-> FALSE,
      patternMatched |-> 0 - 1,
      redditSource |-> RedditSourceOf(sourceResult),
      mergedSources |-> << >> ]

createUltraAdvancedTelegramLink(extractedUsername, originalMatch, sourceResult, searchUsername, patternIndex) ==
    LET isInviteLink == Includes(originalMatch, "joinchat") \/ Includes(originalMatch, "+")
    IN [ url |-> constructTelegramUrl(extractedUsername, isInviteLink, originalMatch),
         username |-> extractedUsername,
         confidence |-> calculateAdvancedConfidence(extractedUsername, sourceResult,
                                                    searchUsername, patternIndex),
         searchMethod |-> "ultra_extraction",
         origin |-> "pattern",
         isInviteLink |-> isInviteLink,
         patternMatched |-> patternIndex,
         redditSource |-> RedditSourceOf(sourceResult),
         mergedSources |-> << >> ]

ultraAdvancedLinkExtraction(text, sourceResult, searchUsername) ==
    LET OfMatch(m, index) ==
            IF isValidTelegramUsername(m.m1)
            THEN << createUltraAdvancedTelegramLink(m.m1, m.m0, sourceResult,
                                                   searchUsername, index) >>
            ELSE << >>
        OfPattern(pat, index) ==
            LET ms == ExecAll(pat, text)
            IN ConcatAll([j \in 1..Len(ms) |-> OfMatch(ms[j], index)])
    IN ConcatAll([i \in 1..Len(ultraPatterns) |-> OfPattern(ultraPatterns[i], i - 1)])

\* /telegram|t\.me|channel|group|chat|invite/i
telegramContext == << IAlt(<< "telegram", "t.me", "channel", "group", "chat", "invite" >>) >>
\* /\b[a-zA-Z][a-zA-Z0-9_]{4,31}\b/g
possibleUsernamePattern == << Wb, CapF(LetterSet, IdSet, 4, 31), Wb >>

inferPossibleTelegramLinks(result, searchUsername) ==
    LET text == toLowerCase(result.title \o " " \o result.description)
        hasTelegramContext == Test(telegramContext, text)
        hasUsernameContext == flexibleUsernameMatch(text, searchUsername)
        possibleUsernames == ExecAll(possibleUsernamePattern, text)
        OfMatch(m) ==
            IF isValidTelegramUsername(m.m0) /\ isSimilarToSearchUsername(m.m0, searchUsername)
            THEN << [ url |-> "https://t.me/" \o m.m0,
                      username |-> m.m0,
                      confidence |-> Pt(45),
                      searchMethod |-> "inference",
                      origin |-> "inference",
                      isInviteLink |-> FALSE,
                      patternMatched |-> 0 - 1,
                      redditSource |-> RedditSourceOf(result),
                      mergedSources |-> << >> ] >>
            ELSE << >>
    IN IF hasTelegramContext /\ hasUsernameContext
       THEN ConcatAll([j \in 1..Len(possibleUsernames) |-> OfMatch(possibleUsernames[j])])
       ELSE << >>

\* the body of the forEach of extractAllTelegramLinksUltra: the links of one result
LinksOfResult(result, username) ==
    [j \in 1..Len(result.telegramLinks) |->
        createUltraTelegramResult(result.telegramLinks[j], result, username)]
       \o ultraAdvancedLinkExtraction(
              result.title \o " " \o result.description \o " " \o result.url,
              result, username)
       \o inferPossibleTelegramLinks(result, username)

(***************************************************************************)
(* Which posts become raw hits                                              *)
(***************************************************************************)
telegramKeywords ==
    { "telegram", "tg", "t.me", "telegram.me", "channel", "group", "chat",
      "broadcast", "bot", "messaging", "invite", "link", "joinchat",
      "community", "discussion", "signal", "whatsapp" }

isTelegramRelated(text) ==
    LET textLower == toLowerCase(text)
    IN \E keyword \in telegramKeywords : Includes(textLower, keyword)

\* /(?:t\.me|telegram\.me|joinchat)/i
containsTelegramLinks(text) ==
    LET low == toLowerCase(text)
    IN Includes(low, "t.me") \/ Includes(low, "telegram.me") \/ Includes(low, "joinchat")

isRelevantPost(data, username) ==
    LET title == toLowerCase(data.title)
        text == toLowerCase(data.selftext)
        url == toLowerCase(data.url)
        subreddit == toLowerCase(data.subreddit)
    IN /\ flexibleUsernameMatch(title \o " " \o text \o " " \o url, username)
       /\ isTelegramRelated(title \o " " \o text \o " " \o url \o " " \o subreddit)
       /\ data.score > 0 - 10

\* processResults: the relevant posts of one search response, as hits
processResults(children, username) ==
    LET Keep(data) == IF isRelevantPost(data, username)
                      THEN << createResultFromPost(data, username, "standard_search") >>
                      ELSE << >>
    IN ConcatAll([i \in 1..Len(children) |-> Keep(children[i])])

(***************************************************************************)
(* Deduplication, scoring, quality filter, ranking                          *)
(***************************************************************************)
\* a variant that keys on the URL as written
DedupKeyVerbatim(link) == link.url

\* the key of ultraIntelligentDeduplication
DedupKey(link) == toLowerCase(normalizeTelegramUrl(link.url))

\* the position of key in the Map (kept as a sequence of [key, link] in insertion
\* order), 0 when the Map does not have it
MapIndex(map, key) ==
    IF \E i \in 1..Len(map) : map[i].key = key
    THEN CHOOSE i \in 1..Len(map) : map[i].key = key
    ELSE 0

\* a variant that forgets what the replaced link had accumulated
MergeIntoForgetful(existing, link) ==
    [link EXCEPT !.mergedSources = << existing.redditSource >>]

\* when the incoming link has the higher confidence it replaces the existing one
MergeInto(existing, link) ==
    [link EXCEPT !.mergedSources = Append(existing.mergedSources, existing.redditSource)]

\* otherwise the existing one stays and records the incoming link's source
MergeKeep(existing, link) ==
    [existing EXCEPT !.mergedSources = Append(existing.mergedSources, link.redditSource)]

\* one iteration of the forEach of ultraIntelligentDeduplication
DedupOne(map, link) ==
    LET key == DedupKey(link)
        i == MapIndex(map, key)
    IN IF i /= 0
       THEN IF link.confidence > map[i].link.confidence
            THEN [map EXCEPT ![i].link = MergeInto(map[i].link, link)]
            ELSE [map EXCEPT ![i].link = MergeKeep(map[i].link, link)]
       ELSE Append(map, [key |-> key, link |-> link])

RECURSIVE DedupFrom(_, _, _)
DedupFrom(map, links, i) ==
    IF i > Len(links) THEN map ELSE DedupFrom(DedupOne(map, links[i]), links, i + 1)

\* Array.from(uniqueLinks.values())
MapValues(map) == [i \in 1..Len(map) |-> map[i].link]

ultraIntelligentDeduplication(links) == MapValues(DedupFrom(<< >>, links, 1))

\* link.confidence || 50
ConfidenceOr50(link) == IF link.confidence = 0 THEN Pt(50) ELSE link.confidence

\* the signed adjustments of ultraAdvancedScoring, in source order
ScoreSimilarity(link, searchUsername) ==
    calculateUsernameSimilarity(link.username, searchUsername) * 30

ScorePopularity(link) ==
    LET redditScore == link.redditSource.redditScore
    IN (IF redditScore > 10 THEN Pt(10) ELSE 0)
       + (IF redditScore > 50 THEN Pt(15) ELSE 0)
       + (IF redditScore > 200 THEN Pt(20) ELSE 0)

ScoreSubreddit(link) ==
    LET subreddit == toLowerCase(link.redditSource.foundIn)
    IN (IF Includes(subreddit, "telegram") THEN Pt(25) ELSE 0)
       + (IF Includes(subreddit, "crypto") THEN Pt(15) ELSE 0)

ScoreMethod(link) ==
    CASE link.searchMethod = "direct_extraction" -> Pt(20)
      [] link.searchMethod = "pattern_match" -> Pt(15)
      [] link.searchMethod = "reverse_search" -> Pt(10)
      [] link.searchMethod = "inference" -> Pt(5)
      [] OTHER -> 0

ScoreInvite(link) == IF ~link.isInviteLink THEN Pt(10) ELSE 0

ScoreMerged(link) == Pt(Len(link.mergedSources) * 5)

ScoreContext(link) ==
    LET context == toLowerCase(link.redditSource.postTitle)
    IN (IF Includes(context, "official") THEN Pt(15) ELSE 0)
       + (IF Includes(context, "verified") THEN Pt(15) ELSE 0)
       - (IF Includes(context, "scam") \/ Includes(context, "fake") THEN Pt(25) ELSE 0)

ScoreOne(link, searchUsername) ==
    [link EXCEPT !.confidence =
        Clamp(ConfidenceOr50(link)
              + ScoreSimilarity(link, searchUsername)
              + ScorePopularity(link)
              + ScoreSubreddit(link)
              + ScoreMethod(link)
              + ScoreInvite(link)
              + ScoreMerged(link)
              + ScoreContext(link))]

ultraAdvancedScoring(links, searchUsername) ==
    [i \in 1..Len(links) |-> ScoreOne(links[i], searchUsername)]

\* Array.prototype.filter
RECURSIVE FilterSeq(_, _, _)
FilterSeq(seq, keep, i) ==
    IF i > Len(seq) THEN << >>
    ELSE (IF keep[i] THEN << seq[i] >> ELSE << >>) \o FilterSeq(seq, keep, i + 1)

\* a variant with the threshold one point lower
QualityKeepsFrom29(link) ==
    /\ ~(link.confidence < Pt(29))
    /\ ~(link.username = "" \/ Len(link.username) < 5)
    /\ ~isCommonWord(link.username)
    /\ ~isSuspiciousUsername(link.username)

QualityKeeps(link) ==
    /\ ~(link.confidence < Pt(30))
    /\ ~(link.username = "" \/ Len(link.username) < 5)
    /\ ~isCommonWord(link.username)
    /\ ~isSuspiciousUsername(link.username)

ultraQualityFilter(links, searchUsername) ==
    FilterSeq(links, [i \in 1..Len(links) |-> QualityKeeps(links[i])], 1)

\* a variant that compares the confidences only
RankCompareByConfidence(a, b, searchUsername) == b.confidence - a.confidence

\* the comparator of ultraIntelligentRanking: negative when a sorts before b
RankCompare(a, b, searchUsername) ==
    LET aExact == toLowerCase(a.username) = toLowerCase(searchUsername)
        bExact == toLowerCase(b.username) = toLowerCase(searchUsername)
        aScore == a.redditSource.redditScore
        bScore == b.redditSource.redditScore
        aSources == Len(a.mergedSources) + 1
        bSources == Len(b.mergedSources) + 1
    IN IF aExact /\ ~bExact THEN 0 - 1
       ELSE IF ~aExact /\ bExact THEN 1
       ELSE IF b.confidence /= a.confidence THEN b.confidence - a.confidence
       ELSE IF bScore /= aScore THEN bScore - aScore
       ELSE bSources - aSources

\* a variant that puts x before the elements it compares equal to
InsertSortedBeforeEqual(s, x, searchUsername) ==
    LET after == { i \in 1..Len(s) : RankCompare(x, s[i], searchUsername) <= 0 }
        pos == IF after = {} THEN Len(s) + 1
               ELSE CHOOSE i \in after : \A j \in after : i <= j
    IN SubSeq(s, 1, pos - 1) \o << x >> \o SubSeq(s, pos, Len(s))

\* x inserted into the sorted sequence s after every element it does not sort before
InsertSorted(s, x, searchUsername) ==
    LET after == { i \in 1..Len(s) : RankCompare(x, s[i], searchUsername) < 0 }
        pos == IF after = {} THEN Len(s) + 1
               ELSE CHOOSE i \in after : \A j \in after : i <= j
    IN SubSeq(s, 1, pos - 1) \o << x >> \o SubSeq(s, pos, Len(s))

RECURSIVE SortFrom(_, _, _, _)
SortFrom(sorted, links, i, searchUsername) ==
    IF i > Len(links) THEN sorted
    ELSE SortFrom(InsertSorted(sorted, links[i], searchUsername), links, i + 1, searchUsername)

\* Array.prototype.sort is stable; the comparator orders by a tuple of keys
ultraIntelligentRanking(links, searchUsername) == SortFrom(<< >>, links, 1, searchUsername)

(***************************************************************************)
(* searchWithAdvancedOptions: the filtering of the ranked list              *)
(***************************************************************************)
\* Array.prototype.slice(0, n)
Slice0(seq, n) ==
    IF n >= 0 THEN SubSeq(seq, 1, Min(n, Len(seq)))
    ELSE SubSeq(seq, 1, Max(Len(seq) + n, 0))

\* a variant that lets every result through
FilterMinConfidenceNone(results, minConfidence) == results

\* results.filter(r => r.confidence >= minConfidence)
FilterMinConfidence(results, minConfidence) ==
    FilterSeq(results, [i \in 1..Len(results) |-> results[i].confidence >= Pt(minConfidence)], 1)

\* subredditFilter "" stands for null
FilterSubreddit(results, subredditFilter) ==
    IF subredditFilter = "" THEN results
    ELSE FilterSeq(results,
                   [i \in 1..Len(results) |->
                        Includes(results[i].redditSource.foundIn, subredditFilter)], 1)

\* what searchWithAdvancedOptions makes of the ranked list
FilterResults(results, options) ==
    Slice0(FilterSubreddit(FilterMinConfidence(results, options.minConfidence),
                           options.subredditFilter),
           options.maxResults)

(***************************************************************************)
(* Options and the result cache.  An option that the caller left out        *)
(* (undefined) is the empty tuple, one that is given is a one-element tuple.*)
(***************************************************************************)
Absent == << >>
Given(v) == << v >>

\* the destructuring defaults of searchWithAdvancedOptions
OptionOr(option, default) == IF option = Absent THEN default ELSE option[1]

EffectiveOptions(options) ==
    [ useCache |-> OptionOr(options.useCache, TRUE),
      maxResults |-> OptionOr(options.maxResults, 1000),
      minConfidence |-> OptionOr(options.minConfidence, 0),
      subredditFilter |-> OptionOr(options.subredditFilter, "") ]

\* JSON.stringify of one option: undefined properties are left out
StringifyField(name, option, text) ==
    IF option = Absent THEN << >> ELSE << name \o ":" \o text >>

RECURSIVE JoinComma(_)
JoinComma(parts) ==
    IF parts = << >> THEN ""
    ELSE IF Len(parts) = 1 THEN parts[1]
    ELSE parts[1] \o "," \o JoinComma(Tail(parts))

\* JSON.stringify(options), written without the quotation marks around names and texts
StringifyOptions(options) ==
    "{" \o JoinComma(
              StringifyField("useCache", options.useCache,
                             IF options.useCache = Given(TRUE) THEN "true" ELSE "false")
              \o StringifyField("maxResults", options.maxResults,
                                ToString(OptionOr(options.maxResults, 0)))
              \o StringifyField("minConfidence", options.minConfidence,
                                ToString(OptionOr(options.minConfidence, 0)))
              \o StringifyField("subredditFilter", options.subredditFilter,
                                OptionOr(options.subredditFilter, ""))) \o "}"

getCacheKey(searchUsername, options) ==
    "reddit_ultra_" \o searchUsername \o "_" \o StringifyOptions(options)

\* this.cacheExpiry, in milliseconds
cacheExpiry == 10 * 60 * 1000

\* the size above which setCachedResults evicts
cacheCapacity == 100

\* the position of the entry of key in the cache (a Map, kept as a sequence of
\* [key, data, timestamp] in insertion order), 0 when there is none
CacheIndex(map, key) ==
    IF \E i \in 1..Len(map) : map[i].key = key
    THEN CHOOSE i \in 1..Len(map) : map[i].key = key
    ELSE 0

\* a variant that takes an entry of any age
CacheIsFreshAtAnyAge(map, key, time) == CacheIndex(map, key) /= 0

\* getCachedResults finds an entry that is younger than cacheExpiry
CacheIsFresh(map, key, time) ==
    /\ CacheIndex(map, key) /= 0
    /\ time - map[CacheIndex(map, key)].timestamp < cacheExpiry

getCachedResults(map, key) == map[CacheIndex(map, key)].data

\* Map.prototype.set: a key that is present keeps its position
MapSet(map, entry) ==
    IF CacheIndex(map, entry.key) /= 0
    THEN [map EXCEPT ![CacheIndex(map, entry.key)] = entry]
    ELSE Append(map, entry)

\* a variant that picks the entry written last
NewestIndex(map) == Len(map)

\* the first entry of the stable sort by timestamp
OldestIndex(map) ==
    CHOOSE i \in 1..Len(map) :
        \A j \in 1..Len(map) :
            \/ map[i].timestamp < map[j].timestamp
            \/ map[i].timestamp = map[j].timestamp /\ i <= j

RemoveAt(seq, i) == SubSeq(seq, 1, i - 1) \o SubSeq(seq, i + 1, Len(seq))

setCachedResults(map, key, data, time) ==
    LET written == MapSet(map, [key |-> key, data |-> data, timestamp |-> time])
    IN IF Len(written) > cacheCapacity
       THEN RemoveAt(written, OldestIndex(written))
       ELSE written

(***************************************************************************)
(* The /reddit-ultra route: the numeric options of the request body are     *)
(* texts, "" when the request leaves one out (parseInt(undefined) is NaN as *)
(* is parseInt("")); subredditFilter "" stands for a missing or null one    *)
(***************************************************************************)
DigitValue(c) == IndexIn(c, DigitChars) - 1

\* the value of the longest prefix of digits of s from position i on, given the value
\* acc of the digits before i
RECURSIVE DigitsFrom(_, _, _)
DigitsFrom(s, i, acc) ==
    IF i > Len(s) \/ Ch(s, i) \notin CharsOf(DigitChars) THEN acc
    ELSE DigitsFrom(s, i + 1, 10 * acc + DigitValue(Ch(s, i)))

\* parseInt: leading blanks, an optional sign, then digits; Absent stands for NaN
parseInt(s) ==
    LET start == 1 + RunLen(s, 1, SpaceSet, Unbounded)
        signed == start <= Len(s) /\ Ch(s, start) \in {"-", "+"}
        first == IF signed THEN start + 1 ELSE start
        negative == signed /\ Ch(s, start) = "-"
    IN IF first > Len(s) \/ Ch(s, first) \notin CharsOf(DigitChars) THEN Absent
       ELSE Given((IF negative THEN 0 - 1 ELSE 1) * DigitsFrom(s, first, 0))

\* parseInt(x) || default: NaN and 0 give the default
ParseIntOr(s, default) ==
    IF parseInt(s) = Absent \/ parseInt(s) = Given(0) THEN default ELSE parseInt(s)[1]

\* redditOptions of the /reddit-ultra route
RedditUltraOptions(body) ==
    [ useCache |-> Given(body.useCache /= Given(FALSE)),
      maxResults |-> Given(ParseIntOr(body.maxResults, 1000)),
      minConfidence |-> Given(ParseIntOr(body.minConfidence, 30)),
      subredditFilter |-> Given(body.subredditFilter) ]

(***************************************************************************)
(* The posts and options the model draws from                               *)
(***************************************************************************)
\* the longest list of raw hits of one run
MaxHits == 2

UserPool == { "sample_chan" }

InviteToken == "AAAAAAAAAAAAAAAAAAAAAA"

PostPool ==
    << [ permalink |-> "/r/telegram/comments/a1/", title |-> "sample_chan official channel",
         selftext |-> "join https://t.me/sample_chan", url |-> "",
         subreddit |-> "telegram", score |-> 60, num_comments |-> 8 ],
       [ permalink |-> "/r/scams/comments/a3/", title |-> "SCAM fake giveaway",
         selftext |-> "sample_chan scam at t.me/sample_chat", url |-> "",
         subreddit |-> "scams", score |-> 0 - 3, num_comments |-> 2 ],
       [ permalink |-> "/r/crypto/comments/a2/", title |-> "mirror of Sample_Chan",
         selftext |-> "see T.ME/Sample_Chan/ now", url |-> "",
         subreddit |-> "crypto", score |-> 5, num_comments |-> 0 ],
       [ permalink |-> "/r/groups/comments/a4/", title |-> "private invite",
         selftext |-> "sample_chan http://t.me/joinchat/" \o InviteToken, url |-> "",
         subreddit |-> "groups", score |-> 12, num_comments |-> 1 ],
       [ permalink |-> "/r/osint/comments/a5/", title |-> "sample_chen telegram",
         selftext |-> "ask sample_chan www.t.me/joinchat/" \o InviteToken, url |-> "",
         subreddit |-> "osint", score |-> 250, num_comments |-> 30 ],
       [ permalink |-> "/r/lists/comments/a6/", title |-> "verified list",
         selftext |-> "t.me/example @sample_chan", url |-> "https://t.me/sample_chan/",
         subreddit |-> "lists", score |-> 12, num_comments |-> 0 ],
       [ permalink |-> "/r/channels/comments/a7/", title |-> "worth a look",
         selftext |-> "https://t.me/sample_chan", url |-> "",
         subreddit |-> "channels", score |-> 3, num_comments |-> 0 ] >>

Range(seq) == { seq[i] : i \in 1..Len(seq) }

\* the hits the model draws for each username: the relevant posts of the pool, in the
\* order of the pool
HitTable ==
    { [ user |-> u, hits |-> processResults(PostPool, u) ] : u \in UserPool }

HitSeq(username) == (CHOOSE t \in HitTable : t.user = username).hits
HitPool(username) == Range(HitSeq(username))

\* posts whose links do not have the shape of a Telegram username: one that ends with
\* an underscore, a reserved word, one that starts with a digit
MalformedPosts ==
    << [ permalink |-> "/r/telegram/comments/b1/", title |-> "sample_chan moved",
         selftext |-> "new home t.me/sample_chan_", url |-> "",
         subreddit |-> "telegram", score |-> 4, num_comments |-> 1 ],
       [ permalink |-> "/r/lists/comments/b2/", title |-> "sample_chan and friends",
         selftext |-> "see t.me/telegram", url |-> "",
         subreddit |-> "lists", score |-> 20, num_comments |-> 3 ],
       [ permalink |-> "/r/crypto/comments/b3/", title |-> "sample_chan backup",
         selftext |-> "t.me/12345abc", url |-> "",
         subreddit |-> "crypto", score |-> 2, num_comments |-> 0 ] >>

MalformedHitTable ==
    { [ user |-> u, hits |-> processResults(MalformedPosts, u) ] : u \in UserPool }

MalformedHitPool(username) ==
    Range((CHOOSE t \in MalformedHitTable : t.user = username).hits)

\* the links of every hit of the pools, computed once
LinksTable ==
    UNION { { [ user |-> u, hit |-> h, links |-> LinksOfResult(h, u) ] :
                h \in HitPool(u) \cup MalformedHitPool(u) } :
            u \in UserPool }

\* results.forEach(result => ...): the links of each result in turn, read from the table
\* (the url of a hit is the permalink of its post, one per post of the pools)
extractAllTelegramLinksUltra(results, username) ==
    ConcatAll([i \in 1..Len(results) |->
                  (CHOOSE t \in LinksTable :
                      t.user = username /\ t.hit.url = results[i].url).links])

\* ultraIntelligentProcessing: the six stages in sequence (enrichMetadata, the fifth,
\* adds metadata.enrichment, which nothing downstream reads)
ultraIntelligentProcessing(rawHits, searchUsername) ==
    ultraIntelligentRanking(
        ultraQualityFilter(
            ultraAdvancedScoring(
                ultraIntelligentDeduplication(
                    extractAllTelegramLinksUltra(rawHits, searchUsername)),
                searchUsername),
            searchUsername),
        searchUsername)

\* every sequence over S of length at most n
RECURSIVE SeqsUpTo(_, _)
SeqsUpTo(S, n) ==
    IF n = 0 THEN { << >> }
    ELSE LET shorter == SeqsUpTo(S, n - 1)
         IN shorter \cup { Append(q, x) : q \in shorter, x \in S }

OptionPool ==
    [ minConfidence : { 0, 90 }, maxResults : { 1, 1000 }, subredditFilter : { "", "telegram" } ]

\* the aggregate calls of one service object, the posts Reddit holds for them (the first
\* of the pool) and the longest list of raw hits one of their runs collects
MaxCalls == 2
MaxAggPosts == 2
MaxAggHits == 1

AggHitLists(searchUsername) ==
    SeqsUpTo(Range(SubSeq(HitSeq(searchUsername), 1, MaxAggPosts)), MaxAggHits)

\* the options a caller of the service passes
\* ... among them the options the /reddit-ultra route builds for a body without options
ServiceOptionPool ==
    [ useCache : { Absent, Given(FALSE) },
      maxResults : { Absent, Given(0) },
      minConfidence : { Absent, Given(90), Given(101) },
      subredditFilter : { Absent } ]
    \cup { RedditUltraOptions([ useCache |-> Absent, maxResults |-> "",
                                 minConfidence |-> "", subredditFilter |-> "" ]) }

\* the options of the body of a POST /reddit-ultra request
BodyPool ==
    [ useCache : { Absent },
      maxResults : { "", "0" },
      minConfidence : { "", "90", "101" },
      subredditFilter : { "" } ]

\* expires_in of the token response, in seconds
ExpiresInPool == { 660 }

\* the clock advances in steps of five minutes, up to ten
TickMs == 5 * 60 * 1000
MaxTicks == 2

(***************************************************************************)
(* State                                                                    *)
(***************************************************************************)
VARIABLES
    pc,              \* the position of the run
    callUsername,    \* the username argument of the call
    callOptions,     \* the options argument of the call
    allResults,      \* the raw hits the query phases collected
    rawLinks,        \* telegramLinks: the candidates extraction produced
    forEachIndex,    \* the position of the forEach of ultraIntelligentDeduplication
    uniqueLinks,     \* the Map of ultraIntelligentDeduplication, [key, link] in insertion order
    stageLinks,      \* the candidate list handed from stage to stage
    filteredResults, \* what searchWithAdvancedOptions returns as results
    cache,           \* this.cache of the long-lived service object
    tokenExpiry,     \* this.tokenExpiry of the long-lived service object, 0 for null
    now,             \* Date.now()
    via,             \* who made the current call: "service" (a caller that holds the
                     \* service object) or "route" (a POST /reddit-ultra request)
    requestBody,     \* the options of the request body of a route call
    authCalls,       \* the token requests the current call has sent
    queryCalls,      \* the query phases the current call has run
    returned,        \* what the last call gave back to its caller
    callCount,       \* the calls made so far
    phaseIndex,      \* the query phase that is running, 1..NumPhases, then NumPhases + 1
    stepIndex,       \* the query of that phase that is next
    attemptNo,       \* attempt of performSearchWithRetry, for the query that is next
    failedAttempts,  \* the requests that have failed so far in the run
    issued,          \* the queries sent at least once, each << phase, query >>
    abandoned,       \* the queries that failed for good
    waited,          \* the milliseconds the run has waited since its last request
    providerMode,    \* how each provider answers the requests of a POST /telegram
    queryIndex,      \* the request of the current provider that is next
    requestLog,      \* per provider: the requests sent and how they ended
    providerResults, \* results of the searchUser call that is running
    searchResults,   \* searchResults of the route
    errors,          \* errors of the route
    routeResponse,   \* what the route answered
    accessToken,     \* this.accessToken of the Reddit service object: 0 for null, else
                     \* the number of the token
    googleRequestDelay,  \* this.requestDelay of the Google service object
    runs,            \* the searches in progress on these two objects: where each is and
                     \* what it has seen
    activeTasks,     \* this.activeTasks of the TaskOrchestrator: task by taskId
    taskHistory,     \* this.taskHistory of the TaskOrchestrator
    operations       \* the calls of the operations of the orchestrator: where each is,
                     \* its type and its taskId

callVars == << callUsername, callOptions >>
dedupVars == << rawLinks, forEachIndex, uniqueLinks >>
serviceVars == << cache, tokenExpiry, now >>
aggregateVars == << via, requestBody, authCalls, queryCalls, returned, callCount >>
runVars == << phaseIndex, stepIndex, attemptNo, failedAttempts, issued, abandoned, waited >>
routeVars == << providerMode, queryIndex, requestLog, providerResults, searchResults, errors,
               routeResponse >>
sharedVars == << accessToken, googleRequestDelay, runs >>
taskVars == << activeTasks, taskHistory, operations >>

vars == << pc, callUsername, callOptions, allResults, rawLinks, forEachIndex, uniqueLinks,
           stageLinks, filteredResults, cache, tokenExpiry, now, via, requestBody,
           authCalls, queryCalls, returned, callCount,
           phaseIndex, stepIndex, attemptNo, failedAttempts, issued, abandoned, waited,
           providerMode, queryIndex, requestLog, providerResults, searchResults, errors,
           routeResponse, accessToken, googleRequestDelay, runs,
           activeTasks, taskHistory, operations >>

NoBody == [ useCache |-> Absent, maxResults |-> "", minConfidence |-> "", subredditFilter |-> "" ]
NothingReturned == [ kind |-> "none", results |-> << >>, metadata |-> << >>, status |-> 0 ]

\* the part of the state an execution of the pipeline alone leaves at its initial value
AggregateIdle ==
    /\ cache = << >>
    /\ tokenExpiry = 0
    /\ now = 0
    /\ via = "service"
    /\ requestBody = NoBody
    /\ authCalls = 0
    /\ queryCalls = 0
    /\ returned = NothingReturned
    /\ callCount = 0

\* ... and the part that only a run of the query phases changes
RunIdle ==
    /\ phaseIndex = 0
    /\ stepIndex = 0
    /\ attemptNo = 0
    /\ failedAttempts = 0
    /\ issued = {}
    /\ abandoned = {}
    /\ waited = 0

\* ... and the part that only a POST /telegram changes
RouteIdle ==
    /\ providerMode = << >>
    /\ queryIndex = 0
    /\ requestLog = << >>
    /\ providerResults = << >>
    /\ searchResults = << >>
    /\ errors = << >>
    /\ routeResponse = << >>

\* this.requestDelay of a new GoogleSearchService, and what a 429 adds to it
googleInitialDelay == 1000
delayIncrement == 500

\* no search is in progress on shared service objects
SharedIdle ==
    /\ accessToken = 0
    /\ googleRequestDelay = googleInitialDelay
    /\ runs = << >>

\* a new TaskOrchestrator on which no operation has been called
TaskIdle ==
    /\ activeTasks = << >>
    /\ taskHistory = << >>
    /\ operations = << >>

(***************************************************************************)
(* The processing pipeline: ultraIntelligentProcessing applied to a list of *)
(* raw hits, then the filtering of searchWithAdvancedOptions                *)
(***************************************************************************)
InitPipe ==
    /\ pc = "extract"
    /\ callUsername \in UserPool
    /\ callOptions \in OptionPool
    /\ allResults \in SeqsUpTo(HitPool(callUsername), MaxHits)
    /\ rawLinks = << >>
    /\ forEachIndex = 0
    /\ uniqueLinks = << >>
    /\ stageLinks = << >>
    /\ filteredResults = << >>
    /\ AggregateIdle
    /\ RunIdle
    /\ RouteIdle
    /\ SharedIdle
    /\ TaskIdle

\* 1. extractAllTelegramLinksUltra
Extract ==
    /\ pc = "extract"
    /\ rawLinks' = extractAllTelegramLinksUltra(allResults, callUsername)
    /\ forEachIndex' = 1
    /\ pc' = "dedup"
    /\ UNCHANGED << runVars, routeVars, sharedVars, taskVars, callVars, allResults, uniqueLinks, stageLinks, filteredResults,
                    serviceVars, aggregateVars >>

\* 2. ultraIntelligentDeduplication, one iteration of its forEach
DedupStep ==
    /\ pc = "dedup"
    /\ forEachIndex <= Len(rawLinks)
    /\ uniqueLinks' = DedupOne(uniqueLinks, rawLinks[forEachIndex])
    /\ forEachIndex' = forEachIndex + 1
    /\ UNCHANGED << runVars, routeVars, sharedVars, taskVars, pc, callVars, allResults, rawLinks, stageLinks, filteredResults,
                    serviceVars, aggregateVars >>

\* ... and its return
DedupReturn ==
    /\ pc = "dedup"
    /\ forEachIndex > Len(rawLinks)
    /\ stageLinks' = MapValues(uniqueLinks)
    /\ pc' = "score"
    /\ UNCHANGED << runVars, routeVars, sharedVars, taskVars, callVars, allResults, dedupVars, filteredResults,
                    serviceVars, aggregateVars >>

\* 3. ultraAdvancedScoring
Score ==
    /\ pc = "score"
    /\ stageLinks' = ultraAdvancedScoring(stageLinks, callUsername)
    /\ pc' = "filter"
    /\ UNCHANGED << runVars, routeVars, sharedVars, taskVars, callVars, allResults, dedupVars, filteredResults,
                    serviceVars, aggregateVars >>

\* 4. ultraQualityFilter; 5. enrichMetadata adds metadata.enrichment, which nothing
\* downstream reads, and leaves every other field alone
QualityFilter ==
    /\ pc = "filter"
    /\ stageLinks' = ultraQualityFilter(stageLinks, callUsername)
    /\ pc' = "rank"
    /\ UNCHANGED << runVars, routeVars, sharedVars, taskVars, callVars, allResults, dedupVars, filteredResults,
                    serviceVars, aggregateVars >>

\* 6. ultraIntelligentRanking
Rank ==
    /\ pc = "rank"
    /\ stageLinks' = ultraIntelligentRanking(stageLinks, callUsername)
    /\ pc' = "return"
    /\ UNCHANGED << runVars, routeVars, sharedVars, taskVars, callVars, allResults, dedupVars, filteredResults,
                    serviceVars, aggregateVars >>

\* searchWithAdvancedOptions filters and truncates what the pipeline returned
ReturnResults ==
    /\ pc = "return"
    /\ filteredResults' = FilterResults(stageLinks, callOptions)
    /\ pc' = "done"
    /\ UNCHANGED << runVars, routeVars, sharedVars, taskVars, callVars, allResults, dedupVars, stageLinks,
                    serviceVars, aggregateVars >>

NextPipe ==
    \/ Extract
    \/ DedupStep
    \/ DedupReturn
    \/ Score
    \/ QualityFilter
    \/ Rank
    \/ ReturnResults

SpecPipe == InitPipe /\ [][NextPipe]_vars

(***************************************************************************)
(* Properties of the pipeline                                               *)
(***************************************************************************)
\* every candidate the run currently holds, at whatever stage
AllCandidates ==
    Range(rawLinks) \cup Range(MapValues(uniqueLinks)) \cup Range(stageLinks)
        \cup Range(filteredResults)

\* the provenance of a candidate: its own source entry, then its merged-source entries
Provenance(link) == << link.redditSource >> \o link.mergedSources

\* C1: no two candidates of the final results have the same normalized destination
\* (URL lowercased, scheme, leading "www." and trailing slash removed).
C1_DistinctDestinations ==
    \A i, j \in 1..Len(filteredResults) :
        i /= j => normalizeTelegramUrl(filteredResults[i].url)
                     /= normalizeTelegramUrl(filteredResults[j].url)

\* the run is over, extraction had produced two differently written URLs of one
\* destination, and that destination is among several final results
C1_Witness ==
    /\ pc = "done"
    /\ Len(filteredResults) >= 2
    /\ \E i, j \in 1..Len(rawLinks) :
          /\ rawLinks[i].url /= rawLinks[j].url
          /\ normalizeTelegramUrl(rawLinks[i].url) = normalizeTelegramUrl(rawLinks[j].url)
          /\ \E k \in 1..Len(filteredResults) :
                normalizeTelegramUrl(filteredResults[k].url)
                    = normalizeTelegramUrl(rawLinks[i].url)

\* C2: every candidate's confidence is within [0,100] at every stage: as extraction or
\* inference created it, after every merge, after scoring, and in the final results.
C2_ConfidenceInRange ==
    \A link \in AllCandidates : link.confidence >= 0 /\ link.confidence <= Pt(100)

\* the run is over; a final result that absorbed a merge sits at the upper limit,
\* and another one lies strictly inside the range
C2_Witness ==
    /\ pc = "done"
    /\ \E r \in Range(filteredResults) : r.confidence = Pt(100) /\ Len(r.mergedSources) > 0
    /\ \E r \in Range(filteredResults) : r.confidence > 0 /\ r.confidence < Pt(100)
    /\ \E l \in Range(rawLinks) : l.origin = "inference"

\* C3: when deduplication merges the incoming candidate B (provenance size n) into the
\* candidate A (provenance size m) that holds B's key, the survivor's provenance has
\* size at least max(m,n), keeps every entry of A and of B, and has size exactly m+n
\* when the two provenances are disjoint; this at every merge of the run, whichever of
\* the two has the higher confidence.
C3_MergeKeepsProvenance ==
    [][ ( /\ pc = "dedup"
          /\ forEachIndex <= Len(rawLinks)
          /\ MapIndex(uniqueLinks, DedupKey(rawLinks[forEachIndex])) /= 0 )
        => LET B == rawLinks[forEachIndex]
               i == MapIndex(uniqueLinks, DedupKey(B))
               A == uniqueLinks[i].link
               S == uniqueLinks'[i].link
               m == Len(Provenance(A))
               n == Len(Provenance(B))
           IN /\ Len(Provenance(S)) >= Max(m, n)
              /\ Range(Provenance(A)) \cup Range(Provenance(B)) \subseteq Range(Provenance(S))
              /\ Range(Provenance(A)) \cap Range(Provenance(B)) = {}
                    => Len(Provenance(S)) = m + n ]_vars

\* deduplication is under way and holds a survivor of several merges that replaced an
\* earlier survivor (its own source is not the one that first held the key) and whose
\* provenance spans two different posts
C3_Witness ==
    /\ pc = "dedup"
    /\ \E e \in Range(uniqueLinks) :
          /\ Len(e.link.mergedSources) >= 3
          /\ \E k \in 1..Len(rawLinks) :
                /\ DedupKey(rawLinks[k]) = e.key
                /\ \A h \in 1..(k - 1) : DedupKey(rawLinks[h]) /= e.key
                /\ rawLinks[k].redditSource /= e.link.redditSource
          /\ \E src \in Range(e.link.mergedSources) : src /= e.link.redditSource

SampleLink == "https://t.me/sample_chan"

\* how often the text of a raw hit (its title and description) holds lit
Occurrences(hit, lit) ==
    LET text == toLowerCase(hit.title \o " " \o hit.description)
    IN Cardinality({ p \in 1..Len(text) : StartsAt(text, p, lit) })

\* the raw hit references the sample link once, and no other Telegram link
ReferencesOnce(hit) ==
    /\ Occurrences(hit, SampleLink) = 1
    /\ Occurrences(hit, "t.me/") = 1
    /\ Occurrences(hit, "telegram.me/") = 0
    /\ Occurrences(hit, "@") = 0

\* C18: when the raw hits are exactly two hits from different posts that each reference
\* https://t.me/sample_chan once, the list deduplication returns holds exactly one
\* candidate for that destination, and its provenance has exactly two entries.
C18_TwoHitsOneCandidateTwoSources ==
    ( /\ pc = "score"
      /\ Len(allResults) = 2
      /\ allResults[1].url /= allResults[2].url
      /\ \A i \in 1..2 : ReferencesOnce(allResults[i]) )
    => \E i \in 1..Len(stageLinks) :
          /\ normalizeTelegramUrl(stageLinks[i].url) = normalizeTelegramUrl(SampleLink)
          /\ Len(Provenance(stageLinks[i])) = 2
          /\ \A j \in 1..Len(stageLinks) :
                j /= i => normalizeTelegramUrl(stageLinks[j].url)
                             /= normalizeTelegramUrl(SampleLink)

\* C19: in the list deduplication returns, no two candidates have the same identifier
\* (username), compared without regard to case, whatever their kinds.
C19_NoSharedHandleAfterDedup ==
    pc = "score" =>
        \A i, j \in 1..Len(stageLinks) :
            i /= j => toLowerCase(stageLinks[i].username)
                         /= toLowerCase(stageLinks[j].username)

\* what the ranking compares: whether the identifier is the search identifier, the
\* confidence, the score of the post the candidate came from, and the number of sources
IsExact(link) == toLowerCase(link.username) = toLowerCase(callUsername)
Popularity(link) == link.redditSource.redditScore
Corroboration(link) == Len(Provenance(link))

\* C20: in the ranked list, of any two candidates the earlier one is an exact match of
\* the search identifier or the later one is not; if they agree on that, the earlier
\* has at least the confidence of the later; if the confidences are equal too, at least
\* its popularity; and if those are equal too, at least its number of sources.
C20_RankedOrder ==
    pc = "return" =>
        \A i, j \in 1..Len(stageLinks) :
            i < j =>
                LET x == stageLinks[i]
                    y == stageLinks[j]
                IN /\ IsExact(x) \/ ~IsExact(y)
                   /\ IsExact(x) = IsExact(y) =>
                         /\ x.confidence >= y.confidence
                         /\ x.confidence = y.confidence =>
                               /\ Popularity(x) >= Popularity(y)
                               /\ Popularity(x) = Popularity(y) =>
                                     Corroboration(x) >= Corroboration(y)

\* a ranked list in which an exact match stands before a candidate of higher
\* confidence, two candidates of equal confidence stand in the order of their
\* popularity, and two of equal confidence and popularity in the order of their
\* numbers of sources
C20_Witness ==
    /\ pc = "return"
    /\ \E i, j \in 1..Len(stageLinks) :
          /\ i < j
          /\ IsExact(stageLinks[i]) /\ ~IsExact(stageLinks[j])
          /\ stageLinks[i].confidence < stageLinks[j].confidence
    /\ \E i, j \in 1..Len(stageLinks) :
          /\ i < j
          /\ IsExact(stageLinks[i]) = IsExact(stageLinks[j])
          /\ stageLinks[i].confidence = stageLinks[j].confidence
          /\ Popularity(stageLinks[i]) > Popularity(stageLinks[j])
    /\ \E i, j \in 1..Len(stageLinks) :
          /\ i < j
          /\ IsExact(stageLinks[i]) = IsExact(stageLinks[j])
          /\ stageLinks[i].confidence = stageLinks[j].confidence
          /\ Popularity(stageLinks[i]) = Popularity(stageLinks[j])
          /\ Corroboration(stageLinks[i]) > Corroboration(stageLinks[j])

\* where a candidate stands in a list
PositionIn(links, link) == CHOOSE k \in 1..Len(links) : links[k] = link

\* the candidates compare equal on every key of the ranking
SameRank(x, y) == RankCompare(x, y, callUsername) = 0

TooWeak(link) == link.confidence < Pt(30)
TooShort(link) == Len(link.username) < 5
Reserved(link) == toLowerCase(link.username) \in commonWords
Suspicious(link) == toLowerCase(link.username) \in suspiciousWords
Rejected(link) == TooWeak(link) \/ TooShort(link) \/ Reserved(link) \/ Suspicious(link)

\* C22: the quality filter keeps exactly the candidates that have a confidence of at
\* least 30, an identifier of at least 5 characters that is neither in the reserved
\* list nor in the suspicious list, in their order; and no candidate of the lists that
\* follow the filter, the final results included, fails one of these conditions.
C22_QualityFilterExact ==
    /\ [][ pc = "filter" =>
             /\ Range(stageLinks') = { l \in Range(stageLinks) : ~Rejected(l) }
             /\ \A i, j \in 1..Len(stageLinks') :
                   i < j => PositionIn(stageLinks, stageLinks'[i])
                               < PositionIn(stageLinks, stageLinks'[j]) ]_vars
    /\ [](pc \in { "rank", "return", "done" } =>
             \A l \in Range(stageLinks) \cup Range(filteredResults) : ~Rejected(l))

\* the title of the post a candidate came from holds a scam keyword
ScamTitled(link) ==
    LET context == toLowerCase(link.redditSource.postTitle)
    IN Includes(context, "scam") \/ Includes(context, "fake")

\* the bonus for the trust keywords of the title
TrustBonus(link) ==
    LET context == toLowerCase(link.redditSource.postTitle)
    IN (IF Includes(context, "official") THEN Pt(15) ELSE 0)
       + (IF Includes(context, "verified") THEN Pt(15) ELSE 0)

\* the confidence a candidate has when ultraAdvancedScoring reaches the penalty: the
\* value accumulated so far, as a confidence (within 0 and 100)
BeforePenalty(link) ==
    Clamp(ConfidenceOr50(link)
          + ScoreSimilarity(link, callUsername)
          + ScorePopularity(link)
          + ScoreSubreddit(link)
          + ScoreMethod(link)
          + ScoreInvite(link)
          + ScoreMerged(link)
          + TrustBonus(link))

\* the candidates deduplication handed to the scoring
DedupedLinks == MapValues(uniqueLinks)

\* C23: a candidate that comes from a post whose title holds "scam" or "fake" leaves the
\* scoring with a confidence strictly below the confidence it has before the penalty
\* is applied, whatever its bonuses are.
C23_ScamPenaltyLowersConfidence ==
    pc = "filter" =>
        \A i \in 1..Len(stageLinks) :
            ScamTitled(stageLinks[i]) =>
                stageLinks[i].confidence < BeforePenalty(DedupedLinks[i])

\* the candidate was made from an invite link: its identifier is the token of a
\* joinchat path in the text of a raw hit
FromInviteLink(link) ==
    \E i \in 1..Len(allResults) :
        Includes(allResults[i].title \o " " \o allResults[i].description,
                 "t.me/joinchat/" \o link.username)

\* C24: every candidate extraction makes from an invite link, by whichever of its
\* methods, has the invite path as its destination, as it stood in the text, and never
\* https://t.me/<token>.
C24_InvitePathKept ==
    pc = "dedup" =>
        \A i \in 1..Len(rawLinks) :
            FromInviteLink(rawLinks[i]) =>
                /\ rawLinks[i].url /= "https://t.me/" \o rawLinks[i].username
                /\ Includes(rawLinks[i].url, "t.me/joinchat/" \o rawLinks[i].username)

\* C25: every candidate extraction emits, from the links found on the hit beforehand,
\* from the patterns or from inference, has an identifier that isValidTelegramUsername
\* accepts: 5 to 32 characters, a letter first, letters, digits and underscores only,
\* no underscore last, not a reserved word.
C25_ExtractedIdentifiersValid ==
    pc = "dedup" =>
        \A i \in 1..Len(rawLinks) : isValidTelegramUsername(rawLinks[i].username)

\* the sum the scoring model names: 50, then every signal once, with the values the
\* code gives them; the clamp comes last
EachSignalOnce(link) ==
    Clamp(Pt(50)
          + Pt(PatternBonus(link.patternMatched))
          + ScoreSimilarity(link, callUsername)
          + ScorePopularity(link)
          + ScoreSubreddit(link)
          + ScoreMethod(link)
          + ScoreInvite(link)
          + ScoreMerged(link)
          + ScoreContext(link))

\* C26: the confidence a candidate made by pattern extraction leaves the scoring with
\* is 50 plus its signal adjustments (similarity, pattern, popularity, specialization,
\* method, invite link, merged sources, trust keywords), each counted once, clamped to
\* 0..100 once, at the end.
C26_ConfidenceIsClampedSumOfSignals ==
    pc = "filter" =>
        \A i \in 1..Len(stageLinks) :
            stageLinks[i].origin = "pattern" =>
                stageLinks[i].confidence = EachSignalOnce(stageLinks[i])

\* the greatest element of a set of numbers
Greatest(S) == CHOOSE x \in S : \A y \in S : y <= x

\* the most each class of signal adds in ultraAdvancedScoring and
\* calculateAdvancedConfidence, and what the scam keywords take away
MostPopularity ==
    Greatest({ ScorePopularity([ redditSource |-> [ redditScore |-> n ] ]) :
                 n \in { 0, 11, 51, 201 } })
MostSimilarity == Scale * 30
MostSpecialization ==
    Greatest({ ScoreSubreddit([ redditSource |-> [ foundIn |-> f ] ]) :
                 f \in { "r/unknown", "r/telegram", "r/crypto", "r/cryptotelegram" } })
MostPattern == Greatest({ Pt(PatternBonus(i)) : i \in 0..16 })
ScamPenalty == 0 - ScoreContext([ redditSource |-> [ postTitle |-> "scam" ] ])

\* C27: the most the signal classes can add is ordered popularity < similarity <
\* specialization < pattern, and the scam penalty is larger than each of them.
C27_SignalMagnitudesOrdered ==
    pc \in { "score", "filter" } =>
        /\ MostPopularity < MostSimilarity
        /\ MostSimilarity < MostSpecialization
        /\ MostSpecialization < MostPattern
        /\ ScamPenalty > Greatest({ MostPopularity, MostSimilarity, MostSpecialization,
                                     MostPattern })

(***************************************************************************)
(* The aggregate call: searchWithAdvancedOptions on a long-lived service    *)
(* object, and the POST /reddit-ultra route.  The route constructs a new    *)
(* RedditUltraSearchService for every request, so a route call reads an     *)
(* empty cache and no token, and what it stores goes with its object.       *)
(***************************************************************************)
\* the number of query phases of searchTelegramGroupsUltraExhaustive
NumPhases == 8

InstanceCache == IF via = "route" THEN << >> ELSE cache
InstanceTokenExpiry == IF via = "route" THEN 0 ELSE tokenExpiry

CallKey == getCacheKey(callUsername, callOptions)

\* username.replace('@', '') replaces the first occurrence
cleanUsername(name) ==
    IF Includes(name, "@")
    THEN LET at == CHOOSE i \in 1..Len(name) :
                       /\ Ch(name, i) = "@"
                       /\ \A j \in 1..(i - 1) : Ch(name, j) /= "@"
         IN SubSeq(name, 1, at - 1) \o SubSeq(name, at + 1, Len(name))
    ELSE name

\* what a call gives back: the response object { results, metadata }, or on a cache hit
\* cached.data, the array that was stored, which has no metadata; status is the HTTP
\* status of a route call, 0 for a service call
Response(kind, results) ==
    [ kind |-> kind, results |-> results,
      metadata |-> IF kind = "response"
                   THEN Given([ searchUsername |-> callUsername, totalFound |-> Len(results) ])
                   ELSE Absent,
      status |-> IF via = "route" THEN (IF kind = "error" THEN 500 ELSE 200) ELSE 0 ]

InitAgg ==
    /\ pc = "idle"
    /\ callUsername = ""
    /\ callOptions = [ useCache |-> Absent, maxResults |-> Absent,
                       minConfidence |-> Absent, subredditFilter |-> Absent ]
    /\ allResults = << >>
    /\ rawLinks = << >>
    /\ forEachIndex = 0
    /\ uniqueLinks = << >>
    /\ stageLinks = << >>
    /\ filteredResults = << >>
    /\ AggregateIdle
    /\ RunIdle
    /\ RouteIdle
    /\ SharedIdle
    /\ TaskIdle

\* a caller invokes searchWithAdvancedOptions(username, options)
ServiceCall ==
    /\ pc = "idle"
    /\ callCount < MaxCalls
    /\ \E u \in UserPool, o \in ServiceOptionPool :
          /\ callUsername' = u
          /\ callOptions' = o
    /\ via' = "service"
    /\ requestBody' = NoBody
    /\ authCalls' = 0
    /\ queryCalls' = 0
    /\ returned' = NothingReturned
    /\ callCount' = callCount + 1
    /\ pc' = "lookup"
    /\ UNCHANGED << runVars, routeVars, sharedVars, taskVars, allResults, dedupVars, stageLinks, filteredResults, serviceVars >>

\* POST /reddit-ultra: the route checks that a username is there, builds redditOptions
\* and calls searchWithAdvancedOptions on a new service object
RouteCall ==
    /\ pc = "idle"
    /\ callCount < MaxCalls
    /\ \E u \in UserPool, body \in BodyPool :
          /\ callUsername' = cleanUsername("@" \o u)
          /\ requestBody' = body
          /\ callOptions' = RedditUltraOptions(body)
    /\ via' = "route"
    /\ authCalls' = 0
    /\ queryCalls' = 0
    /\ returned' = NothingReturned
    /\ callCount' = callCount + 1
    /\ pc' = "lookup"
    /\ UNCHANGED << runVars, routeVars, sharedVars, taskVars, allResults, dedupVars, stageLinks, filteredResults, serviceVars >>

\* if (useCache) { cached = getCachedResults(...); if (cached) return cached }
CacheLookupHit ==
    /\ pc = "lookup"
    /\ EffectiveOptions(callOptions).useCache
    /\ CacheIsFresh(InstanceCache, CallKey, now)
    /\ returned' = Response("cached", getCachedResults(InstanceCache, CallKey))
    /\ pc' = "idle"
    /\ UNCHANGED << runVars, routeVars, sharedVars, taskVars, callVars, allResults, dedupVars, stageLinks, filteredResults,
                    serviceVars, via, requestBody, authCalls, queryCalls, callCount >>

CacheLookupMiss ==
    /\ pc = "lookup"
    /\ ~(EffectiveOptions(callOptions).useCache /\ CacheIsFresh(InstanceCache, CallKey, now))
    /\ pc' = "auth"
    /\ UNCHANGED << runVars, routeVars, sharedVars, taskVars, callVars, allResults, dedupVars, stageLinks, filteredResults,
                    serviceVars, aggregateVars >>

\* authenticate: a token that has not expired is reused without a request
AuthTokenValid ==
    /\ pc = "auth"
    /\ InstanceTokenExpiry /= 0 /\ now < InstanceTokenExpiry
    /\ pc' = "search"
    /\ UNCHANGED << runVars, routeVars, sharedVars, taskVars, callVars, allResults, dedupVars, stageLinks, filteredResults,
                    serviceVars, aggregateVars >>

\* ... otherwise a token is requested, and granted
AuthGranted ==
    /\ pc = "auth"
    /\ ~(InstanceTokenExpiry /= 0 /\ now < InstanceTokenExpiry)
    /\ authCalls' = authCalls + 1
    /\ \E expires_in \in ExpiresInPool :
          tokenExpiry' = IF via = "route" THEN tokenExpiry
                         ELSE now + expires_in * 1000 - 60000
    /\ pc' = "search"
    /\ UNCHANGED << runVars, routeVars, sharedVars, taskVars, callVars, allResults, dedupVars, stageLinks, filteredResults,
                    cache, now, via, requestBody, queryCalls, returned, callCount >>

\* ... or the request fails: authenticate throws, and the call ends with that error
AuthRefused ==
    /\ pc = "auth"
    /\ ~(InstanceTokenExpiry /= 0 /\ now < InstanceTokenExpiry)
    /\ authCalls' = authCalls + 1
    /\ returned' = Response("error", << >>)
    /\ pc' = "idle"
    /\ UNCHANGED << runVars, routeVars, sharedVars, taskVars, callVars, allResults, dedupVars, stageLinks, filteredResults,
                    serviceVars, via, requestBody, queryCalls, callCount >>

\* the query phases collect the raw hits
RunPhases ==
    /\ pc = "search"
    /\ allResults' \in AggHitLists(callUsername)
    /\ queryCalls' = queryCalls + NumPhases
    /\ pc' = "process"
    /\ UNCHANGED << runVars, routeVars, sharedVars, taskVars, callVars, dedupVars, stageLinks, filteredResults,
                    serviceVars, via, requestBody, authCalls, returned, callCount >>

\* ultraIntelligentProcessing, then the filtering, the cache write and the response
ProcessAndRespond ==
    /\ pc = "process"
    /\ stageLinks' = ultraIntelligentProcessing(allResults, callUsername)
    /\ filteredResults' = FilterResults(stageLinks', EffectiveOptions(callOptions))
    /\ cache' = IF EffectiveOptions(callOptions).useCache /\ via = "service"
                THEN setCachedResults(cache, CallKey, filteredResults', now)
                ELSE cache
    /\ returned' = Response("response", filteredResults')
    /\ pc' = "idle"
    /\ UNCHANGED << runVars, routeVars, sharedVars, taskVars, callVars, allResults, dedupVars, tokenExpiry, now,
                    via, requestBody, authCalls, queryCalls, callCount >>

\* time passes between calls
Tick ==
    /\ pc = "idle"
    /\ now < MaxTicks * TickMs
    /\ now' = now + TickMs
    /\ UNCHANGED << runVars, routeVars, sharedVars, taskVars, pc, callVars, allResults, dedupVars, stageLinks, filteredResults,
                    cache, tokenExpiry, aggregateVars >>

NextAgg ==
    \/ ServiceCall
    \/ RouteCall
    \/ CacheLookupHit
    \/ CacheLookupMiss
    \/ AuthTokenValid
    \/ AuthGranted
    \/ AuthRefused
    \/ RunPhases
    \/ ProcessAndRespond
    \/ Tick

SpecAgg == InitAgg /\ [][NextAgg]_vars

(***************************************************************************)
(* Properties of the aggregate call                                         *)
(***************************************************************************)
\* C4: whatever an aggregate call returns as results, from a fresh run or from a cache
\* hit, holds no candidate whose confidence is lower than the minConfidence of the
\* call's options.
C4_NoResultBelowMinConfidence ==
    returned.kind \in { "response", "cached" }
        => \A r \in Range(returned.results) :
              r.confidence >= Pt(EffectiveOptions(callOptions).minConfidence)

\* a call with minConfidence 90 was answered from the cache with at least one candidate,
\* and the run that filled the cache had ranked a candidate below 90
C4_Witness ==
    /\ pc = "idle"
    /\ returned.kind = "cached"
    /\ callOptions.minConfidence = Given(90)
    /\ returned.results /= << >>
    /\ \E l \in Range(stageLinks) : l.confidence < Pt(90)

\* the options as the caller wrote them: the arguments of a service call, the numbers
\* in the body of a route call
RequestedMinConfidence ==
    IF via = "route" THEN parseInt(requestBody.minConfidence) ELSE callOptions.minConfidence
RequestedMaxResults ==
    IF via = "route" THEN parseInt(requestBody.maxResults) ELSE callOptions.maxResults

OutOfRange(option, low, high) == option /= Absent /\ (option[1] < low \/ option[1] > high)

\* C5: a call whose minConfidence is outside [0,100] or whose maxResults is outside
\* [1,10000] sends no token request and runs no query phase, and what it gives back
\* is a validation error.
C5_RejectedBeforeRun ==
    ( /\ callCount > 0
      /\ \/ OutOfRange(RequestedMinConfidence, 0, 100)
         \/ OutOfRange(RequestedMaxResults, 1, 10000) )
        => /\ authCalls = 0
           /\ queryCalls = 0
           /\ pc = "idle" => returned.kind = "validation_error"

\* the entries of the cache of the service object the call runs on that were stored,
\* for the username and options of the call, less than ten minutes ago
StoredInTime ==
    { i \in 1..Len(InstanceCache) :
        /\ InstanceCache[i].key = getCacheKey(callUsername, callOptions)
        /\ now - InstanceCache[i].timestamp < 10 * 60 * 1000 }

C14_CacheHitReturnsStoredResponse ==
    returned.kind = "cached" =>
        /\ returned.metadata /= Absent
        /\ \E i \in 1..Len(InstanceCache) :
              /\ InstanceCache[i].key = getCacheKey(callUsername, callOptions)
              /\ returned.results = InstanceCache[i].data

\* C16: a run with the cache on, made while the process holds a result that an earlier
\* run stored for the same username and options less than ten minutes ago, returns that
\* result without running the pipeline, whether the run was started by a direct call
\* or by the /reddit-ultra route.
C16_StoredResultFoundByLaterRun ==
    [][ ( /\ pc = "lookup"
          /\ EffectiveOptions(callOptions).useCache
          /\ CacheIsFresh(cache, getCacheKey(callUsername, callOptions), now) )
        => ( /\ pc' = "idle"
             /\ returned'.kind = "cached"
             /\ returned'.results =
                    getCachedResults(cache, getCacheKey(callUsername, callOptions)) ) ]_vars

(***************************************************************************)
(* A run of searchTelegramGroupsUltraExhaustive, query by query.  A phase   *)
(* is the list of its queries in the order the code sends them; for each    *)
(* query the list says whether it goes through performSearchWithRetry, and  *)
(* where the phase goes on when the query fails for good: the statement     *)
(* after the try block that holds it.                                       *)
(***************************************************************************)
\* the lengths of the lists the phases loop over
exhaustivePatternsCount == 17
prioritySubredditsCount == 8
variationsSliced == 50
essentialQueriesCount == 4
timeRangesCount == 5
sortsCount == 4
temporalQueriesCount == 4
reverseQueriesCount == 14
cryptoSubredditsCount == 4
userPostsCalls == 3
userCommentsCalls == 2
mentionPatternsCount == 21
contextualQueriesCount == 22
crossPlatformsCount == 9
crossQueriesCount == 4
commentQueriesCount == 5

\* performSearchWithRetry(query, subreddit = null, retries = 2)
retries == 2

\* the model runs the first MaxLoop rounds of every loop
MaxLoop == 1
Cut(n) == Min(n, MaxLoop)

\* the raw hits one run collects, and the requests that fail in one run
MaxRunHits == 2
MaxFailedAttempts == 4

Step(wrapped, onFail) == [ wrapped |-> wrapped, onFail |-> onFail ]

\* for (...) { try { query } catch { } }: n queries after the first `before` ones
EachInOwnTry(n, wrapped, before) ==
    [ i \in 1..n |-> Step(wrapped, before + i + 1) ]

\* try { query; query; ... } catch { }
AllInOneTry(n, wrapped, before) ==
    [ i \in 1..n |-> Step(wrapped, before + n + 1) ]

\* for (...) { try { query; for (...) { try { query } catch { } } } catch { } }:
\* n rounds of one query and then m more
GlobalThenEach(n, m, wrapped) ==
    [ i \in 1..(n * (1 + m)) |->
        IF (i - 1) % (1 + m) = 0 THEN Step(wrapped, i + m + 1) ELSE Step(wrapped, i + 1) ]

\* /^[a-zA-Z0-9_-]+$/ and the other tests of couldBeRedditUsername
couldBeRedditUsername(name) ==
    /\ Len(name) >= 3
    /\ Len(name) <= 20
    /\ \A i \in 1..Len(name) : Ch(name, i) \in IdDashSet
    /\ ~Includes(name, "@")
    /\ ~Includes(name, ".")

\* executeUserMiningExhaustive: mineUserPostsExhaustive, mineUserCommentsExhaustive,
\* searchUserMentionsExhaustive
UserMiningPlan(name) ==
    LET mining == IF couldBeRedditUsername(name)
                  THEN AllInOneTry(Cut(userPostsCalls), FALSE, 0)
                       \o AllInOneTry(Cut(userCommentsCalls), FALSE, Cut(userPostsCalls))
                  ELSE << >>
    IN mining \o EachInOwnTry(Cut(mentionPatternsCount), TRUE, Len(mining))

\* the queries of the eight phases
PhasePlan(phase, name) ==
    CASE phase = 1 ->
           GlobalThenEach(Cut(exhaustivePatternsCount), Cut(prioritySubredditsCount), TRUE)
      [] phase = 2 ->
           EachInOwnTry(Cut(variationsSliced) * Cut(essentialQueriesCount), TRUE, 0)
      [] phase = 3 ->
           EachInOwnTry(Cut(timeRangesCount) * Cut(sortsCount) * Cut(temporalQueriesCount),
                        FALSE, 0)
      [] phase = 4 ->
           GlobalThenEach(Cut(reverseQueriesCount), Cut(cryptoSubredditsCount), TRUE)
      [] phase = 5 -> UserMiningPlan(name)
      [] phase = 6 -> EachInOwnTry(Cut(contextualQueriesCount), TRUE, 0)
      [] phase = 7 ->
           EachInOwnTry(Cut(crossPlatformsCount) * Cut(crossQueriesCount), TRUE, 0)
      [] phase = 8 -> EachInOwnTry(Cut(commentQueriesCount), FALSE, 0)

\* this.requestDelay = 500
requestDelay == 500

\* whether a query of executeReverseSearchMassive is the global one of its round, and
\* whether it is the last one of its round
ReverseGlobal(step) == (step - 1) % (1 + Cut(cryptoSubredditsCount)) = 0
ReverseLast(step) == step % (1 + Cut(cryptoSubredditsCount)) = 0

\* the milliseconds the phase waits between the answer to a query and its next request:
\* the await this.delay(...) statements that follow the query inside its try block
DelayAfterSuccess(phase, step, name) ==
    CASE phase = 2 -> requestDelay \div 2
      [] phase = 4 ->
           (IF ReverseGlobal(step) /\ Cut(cryptoSubredditsCount) > 0 THEN 0 ELSE requestDelay)
           + (IF ReverseLast(step) /\ Cut(cryptoSubredditsCount) > 0 THEN requestDelay ELSE 0)
      [] phase = 5 ->
           IF step <= Len(UserMiningPlan(name)) - Cut(mentionPatternsCount)
           THEN 0 ELSE requestDelay
      [] OTHER -> requestDelay

\* ... and between the failure of a query and the next request: a catch block waits for
\* nothing, only the end of a round of executeReverseSearchMassive does
DelayAfterFailure(phase, step) ==
    IF phase = 4 /\ ~ReverseGlobal(step) /\ ReverseLast(step) THEN requestDelay ELSE 0

\* a variant that gives up at the first failure
ThrowsOnAnyFailure(attempt) == attempt >= 0

\* if (attempt === retries) throw error
ThrowsOnFailure(attempt) == attempt = retries

\* a variant that leaves out every other phase
PhaseAfterSkipping(phase) == phase + 2

\* the phase that follows in searchTelegramGroupsUltraExhaustive
PhaseAfter(phase) == phase + 1

QueryPending ==
    /\ pc = "phases"
    /\ phaseIndex <= NumPhases
    /\ stepIndex <= Len(PhasePlan(phaseIndex, callUsername))

CurrentStep == PhasePlan(phaseIndex, callUsername)[stepIndex]
CurrentQuery == << phaseIndex, stepIndex >>

\* what a response adds to the raw hits: nothing, or the next hit of the pool
ResponseHits ==
    { << >> } \cup { << HitSeq(callUsername)[k] >> :
                        k \in { Len(allResults) + 1 } \cap 1..Min(MaxRunHits, MaxAggPosts) }

InitRun ==
    /\ pc = "phases"
    /\ callUsername \in UserPool
    /\ callOptions = [ minConfidence |-> 0, maxResults |-> 1000, subredditFilter |-> "" ]
    /\ allResults = << >>
    /\ rawLinks = << >>
    /\ forEachIndex = 0
    /\ uniqueLinks = << >>
    /\ stageLinks = << >>
    /\ filteredResults = << >>
    /\ AggregateIdle
    /\ phaseIndex = 1
    /\ stepIndex = 1
    /\ attemptNo = 0
    /\ failedAttempts = 0
    /\ issued = {}
    /\ abandoned = {}
    /\ waited = 0
    /\ RouteIdle
    /\ SharedIdle
    /\ TaskIdle

\* the request is answered, and what the response holds is pushed to the results
QuerySucceeds ==
    /\ QueryPending
    /\ \E hits \in ResponseHits : allResults' = allResults \o hits
    /\ issued' = issued \cup { CurrentQuery }
    /\ stepIndex' = stepIndex + 1
    /\ attemptNo' = 0
    /\ waited' = DelayAfterSuccess(phaseIndex, stepIndex, callUsername)
    /\ UNCHANGED << routeVars, sharedVars, taskVars, pc, callVars, dedupVars, stageLinks, filteredResults, serviceVars,
                    aggregateVars, phaseIndex, failedAttempts, abandoned >>

\* the request fails inside performSearchWithRetry, which waits and tries again
QueryRetried ==
    /\ QueryPending
    /\ failedAttempts < MaxFailedAttempts
    /\ CurrentStep.wrapped
    /\ ~ThrowsOnFailure(attemptNo)
    /\ attemptNo' = attemptNo + 1
    /\ failedAttempts' = failedAttempts + 1
    /\ issued' = issued \cup { CurrentQuery }
    /\ waited' = requestDelay * 2
    /\ UNCHANGED << routeVars, sharedVars, taskVars, pc, callVars, allResults, dedupVars, stageLinks, filteredResults,
                    serviceVars, aggregateVars, phaseIndex, stepIndex, abandoned >>

\* the request fails and the error reaches the catch around the query
QueryAbandoned ==
    /\ QueryPending
    /\ failedAttempts < MaxFailedAttempts
    /\ CurrentStep.wrapped => ThrowsOnFailure(attemptNo)
    /\ failedAttempts' = failedAttempts + 1
    /\ issued' = issued \cup { CurrentQuery }
    /\ abandoned' = abandoned \cup { CurrentQuery }
    /\ stepIndex' = CurrentStep.onFail
    /\ attemptNo' = 0
    /\ waited' = DelayAfterFailure(phaseIndex, stepIndex)
    /\ UNCHANGED << routeVars, sharedVars, taskVars, pc, callVars, allResults, dedupVars, stageLinks, filteredResults,
                    serviceVars, aggregateVars, phaseIndex >>

\* the phase returns its results and the next one starts
PhaseReturns ==
    /\ pc = "phases"
    /\ phaseIndex <= NumPhases
    /\ stepIndex > Len(PhasePlan(phaseIndex, callUsername))
    /\ phaseIndex' = PhaseAfter(phaseIndex)
    /\ stepIndex' = 1
    /\ UNCHANGED << routeVars, sharedVars, taskVars, pc, callVars, allResults, dedupVars, stageLinks, filteredResults,
                    serviceVars, aggregateVars, attemptNo, failedAttempts, issued,
                    abandoned, waited >>

\* after the last phase: ultraIntelligentProcessing(allResults, username)
StartProcessing ==
    /\ pc = "phases"
    /\ phaseIndex > NumPhases
    /\ pc' = "extract"
    /\ UNCHANGED << routeVars, sharedVars, taskVars, callVars, allResults, dedupVars, stageLinks, filteredResults,
                    serviceVars, aggregateVars, runVars >>

NextRun ==
    \/ QuerySucceeds
    \/ QueryRetried
    \/ QueryAbandoned
    \/ PhaseReturns
    \/ StartProcessing
    \/ Extract
    \/ DedupStep
    \/ DedupReturn
    \/ Score
    \/ QualityFilter
    \/ Rank
    \/ ReturnResults

SpecRun == InitRun /\ [][NextRun]_vars

(***************************************************************************)
(* Properties of the run                                                    *)
(***************************************************************************)
\* C6: a query that fails for good takes nothing else with it: once a phase has
\* returned, every query of its list has been sent.
C6_OnlyFailedQueryAbandoned ==
    \A phase \in 1..NumPhases :
        phaseIndex > phase
            => \A k \in 1..Len(PhasePlan(phase, callUsername)) : << phase, k >> \in issued

\* the stages in the order of ultraIntelligentProcessing, after the query phases
StageOrder ==
    { << "phases", "extract" >>, << "extract", "dedup" >>, << "dedup", "score" >>,
      << "score", "filter" >>, << "filter", "rank" >>, << "rank", "return" >>,
      << "return", "done" >> }

\* C9: the phases run one after another in their order, each after the one before it
\* has sent its last query; extraction starts only when the last phase has returned;
\* the run moves from stage to stage only along extraction, deduplication, scoring,
\* filtering, ranking, so that each stage is entered once; and from extraction on the
\* raw hits no longer change, extraction reading all of them.
C9_PhasesThenStagesInOrder ==
    [][ /\ phaseIndex' /= phaseIndex
            => /\ phaseIndex' = phaseIndex + 1
               /\ pc = "phases"
               /\ stepIndex > Len(PhasePlan(phaseIndex, callUsername))
        /\ pc' /= pc => << pc, pc' >> \in StageOrder
        /\ pc' = "extract" /\ pc = "phases" => phaseIndex = NumPhases + 1
        /\ pc /= "phases" => allResults' = allResults /\ phaseIndex' = phaseIndex
        /\ pc = "extract" /\ pc' = "dedup"
            => rawLinks' = extractAllTelegramLinksUltra(allResults, callUsername) ]_vars

\* the run is over: it collected hits in two different phases, lost a query on the way,
\* and ranked candidates of both hits
C9_Witness ==
    /\ pc = "done"
    /\ Len(allResults) = MaxRunHits
    /\ abandoned /= {}
    /\ filteredResults /= << >>
    /\ \E a, b \in Range(rawLinks) : a.redditSource /= b.redditSource

\* C10: a query sent through performSearchWithRetry is attempted at most 3 times; an
\* attempt that succeeds is the last one of its query; the query counts as failed only
\* when its third attempt fails, and the run then goes on with the phases.
C10_AtMostThreeAttempts ==
    [][ /\ attemptNo' + 1 <= 3
        /\ ( /\ QueryPending
             /\ abandoned' = abandoned
             /\ failedAttempts' = failedAttempts )
            => << phaseIndex', stepIndex' >> /= CurrentQuery /\ attemptNo' = 0
        /\ ( /\ QueryPending
             /\ CurrentStep.wrapped
             /\ abandoned' /= abandoned )
            => /\ attemptNo + 1 = 3
               /\ abandoned' = abandoned \cup { CurrentQuery }
               /\ pc' = "phases"
               /\ phaseIndex' = phaseIndex ]_vars

\* the run is over; one wrapped query failed three times and was given up, another
\* one succeeded on a later attempt
C10_Witness ==
    /\ pc = "done"
    /\ failedAttempts = MaxFailedAttempts
    /\ Cardinality(abandoned) = 1
    /\ \E q \in abandoned : PhasePlan(q[1], callUsername)[q[2]].wrapped

\* a step of the run in which a request is sent to Reddit and answered or failed
RequestSent ==
    /\ QueryPending
    /\ \/ stepIndex' /= stepIndex
       \/ attemptNo' /= attemptNo
       \/ failedAttempts' /= failedAttempts

\* C11: every request a phase sends goes through performSearchWithRetry, the one way of
\* sending that sets a timeout (performSearch, timeout: 15000) and retries a failure, and
\* its query is given up only when attempt number retries + 1 has failed.
C11_EveryCallHasTimeoutAndRetry ==
    [][ RequestSent =>
          /\ CurrentStep.wrapped
          /\ abandoned' /= abandoned => attemptNo = retries ]_vars

\* C12: a request that is not the first of the run is sent only after the run has
\* waited requestDelay since the request before it, whether that one succeeded or not.
C12_DelayBeforeEveryCall ==
    [][ (RequestSent /\ (issued /= {} \/ failedAttempts > 0)) => waited >= requestDelay ]_vars

(***************************************************************************)
(* POST /api/search/telegram: the providers one after the other, each in   *)
(* its own try, then the deduplication, the sort and the response.  The    *)
(* request enables the four providers and leaves aiAnalysis off.           *)
(***************************************************************************)
\* the service names of errors.push
Providers == { "Google", "Bing", "Telegram", "Reddit Ultra" }

\* how a provider answers every request of one POST: "data", "timeout", "forbidden"
\* (401 or 403), "ratelimited" (429); "nokey": its key is missing from the environment;
\* "noengine": GOOGLE_SEARCH_ENGINE_ID is missing; "apitimeout": Reddit grants the
\* token and every request to its API times out
ModesOf(provider) ==
    CASE provider = "Google" ->
             { "data", "timeout", "forbidden", "ratelimited", "nokey", "noengine" }
      [] provider = "Bing" -> { "data", "timeout", "forbidden", "ratelimited", "nokey" }
      [] provider = "Telegram" -> { "data", "timeout", "forbidden", "nokey" }
      [] OTHER -> { "data", "timeout", "forbidden", "apitimeout" }

googleQueriesCount == 8
bingQueriesCount == 8
popularChatsCount == 3
inlineBotsCount == 2
rankTolerance == 5
defaultMaxResults == 100

\* the loops over the queries of a provider are cut to MaxProviderQueries iterations
MaxProviderQueries == 2
CutTo(n) == Min(n, MaxProviderQueries)

\* a result of the route; redditSource and mergedSources are the two properties of its
\* metadata that removeDuplicatesAdvanced reads, Absent when the metadata has none
RouteResult(url, source, confidence, redditSource, mergedSources) ==
    [ url |-> url, source |-> source, confidence |-> confidence,
      redditSource |-> redditSource, mergedSources |-> mergedSources ]

WebResult(url, source, confidence) == RouteResult(url, source, confidence, Absent, Absent)

\* what processResults of GoogleSearchService keeps of the answer to a query
GoogleItems(name, query) ==
    IF query = 1
    THEN << WebResult("https://t.me/" \o name, "Google Search API", 85) >>
    ELSE << WebResult("https://t.me/" \o name \o "_official", "Google Search API", 95) >>

\* what processResults of BingSearchService keeps of the answer to a query
BingItems(name, query) ==
    IF query = 1
    THEN << WebResult("https://T.me/" \o name, "Bing Search API", 90) >>
    ELSE << WebResult("https://t.me/" \o name \o "_news", "Bing Search API", 93) >>

\* request 1 is getChat for the username (processChatResult: 70 + 10 for the public
\* username); the others are getChat for the popular chats, none relevant to the user
TelegramItems(name, request) ==
    IF request = 1
    THEN << WebResult("https://t.me/" \o name, "Telegram Bot API", 80) >>
    ELSE << >>

\* generateTelegramResults: each of channelTypes with probability 0.7, here the first
\* of them
SimulatedItems(name) ==
    { << >>, << WebResult("https://t.me/" \o name \o "_official", "Telegram Bot API", 60) >> }

\* what a run of the Reddit service may return
RedditItems(name) ==
    { << >>, << RouteResult("https://t.me/" \o name \o "_chat", "Reddit Ultra", 75,
                            Given("r/telegram"), Absent) >> }

\* results.sort with a comparator that puts a before b when a's confidence is higher
\* by more than the tolerance, and leaves them in order otherwise
InsertRanked(sorted, result, tolerance) ==
    LET before == { j \in 1..Len(sorted) : result.confidence - sorted[j].confidence > tolerance }
        at == IF before = {} THEN Len(sorted) + 1 ELSE CHOOSE j \in before : \A k \in before : j <= k
    IN SubSeq(sorted, 1, at - 1) \o << result >> \o SubSeq(sorted, at, Len(sorted))

RECURSIVE RankFrom(_, _, _, _)
RankFrom(sorted, results, i, tolerance) ==
    IF i > Len(results) THEN sorted
    ELSE RankFrom(InsertRanked(sorted, results[i], tolerance), results, i + 1, tolerance)

googleRankResults(results) == RankFrom(<< >>, results, 1, 0)
bingRankResults(results) == RankFrom(<< >>, results, 1, rankTolerance)

\* the result replaces existing: when existing has a mergedSources, the result's becomes
\* a copy of it, followed by the redditSource of existing when it has one
TakeOver(result, existing) ==
    IF existing.mergedSources = Absent THEN result
    ELSE [ result EXCEPT !.mergedSources =
             Given(existing.mergedSources[1] \o
                   (IF existing.redditSource = Absent THEN << >>
                    ELSE << existing.redditSource[1] >>)) ]

\* existing stays: its mergedSources (|| []) gets the redditSource of the result when
\* the result has one
AddSource(existing, result) ==
    [ existing EXCEPT !.mergedSources =
        Given(OptionOr(@, << >>) \o
              (IF result.redditSource = Absent THEN << >>
               ELSE << result.redditSource[1] >>)) ]

RECURSIVE RemoveDuplicatesFrom(_, _, _)
RemoveDuplicatesFrom(finalResults, results, i) ==
    IF i > Len(results) THEN finalResults
    ELSE LET seen == { j \in 1..Len(finalResults) :
                          toLowerCase(finalResults[j].url) = toLowerCase(results[i].url) }
         IN IF seen = {}
            THEN RemoveDuplicatesFrom(Append(finalResults, results[i]), results, i + 1)
            ELSE IF \E j \in seen : results[i].confidence > finalResults[j].confidence
            THEN RemoveDuplicatesFrom(
                     [ j \in 1..Len(finalResults) |->
                         IF j \in seen THEN TakeOver(results[i], finalResults[j])
                         ELSE finalResults[j] ],
                     results, i + 1)
            ELSE RemoveDuplicatesFrom(
                     [ j \in 1..Len(finalResults) |->
                         IF j \in seen THEN AddSource(finalResults[j], results[i])
                         ELSE finalResults[j] ],
                     results, i + 1)

removeDuplicatesAdvanced(results) == RemoveDuplicatesFrom(<< >>, results, 1)

\* uniqueResults.sort(...).slice(0, parseInt(options.maxResults) || 100)
sortedResults(results, body) ==
    Slice0(RankFrom(<< >>, removeDuplicatesAdvanced(results), 1, 0),
           ParseIntOr(body.maxResults, defaultMaxResults))

NothingLogged == [ sent |-> 0, timedOut |-> 0, refused |-> 0, afterRefusal |-> 0, results |-> 0 ]

\* one more request sent to the provider, and how it ended
Logged(log, provider) ==
    [ log EXCEPT ![provider] =
        [ sent |-> @.sent + 1,
          timedOut |-> @.timedOut + (IF providerMode[provider] \in { "timeout", "apitimeout" } THEN 1 ELSE 0),
          refused |-> @.refused + (IF providerMode[provider] = "forbidden" THEN 1 ELSE 0),
          afterRefusal |-> @.afterRefusal + (IF @.refused > 0 THEN 1 ELSE 0),
          results |-> @.results ] ]

\* searchResults.push(...providerResults)
Contributed(log, provider, found) ==
    [ log EXCEPT ![provider].results = @ + Len(found) ]

ErrorEntry(service, message) == [ service |-> service, error |-> message ]

routeFrame == << callVars, allResults, dedupVars, stageLinks, filteredResults, serviceVars,
                aggregateVars, runVars, sharedVars, taskVars >>

InitRoute ==
    /\ pc = "google"
    /\ callUsername \in UserPool
    /\ callOptions = RedditUltraOptions(NoBody)
    /\ allResults = << >>
    /\ rawLinks = << >>
    /\ forEachIndex = 0
    /\ uniqueLinks = << >>
    /\ stageLinks = << >>
    /\ filteredResults = << >>
    /\ AggregateIdle
    /\ RunIdle
    /\ providerMode \in { f \in [ Providers -> UNION { ModesOf(p) : p \in Providers } ] :
                            \A p \in Providers : f[p] \in ModesOf(p) }
    /\ queryIndex = 1
    /\ requestLog = [ p \in Providers |-> NothingLogged ]
    /\ providerResults = << >>
    /\ searchResults = << >>
    /\ errors = << >>
    /\ routeResponse = << >>
    /\ SharedIdle
    /\ TaskIdle

\* if (options.google && process.env.GOOGLE_API_KEY): the key is missing
GoogleSkipped ==
    /\ pc = "google"
    /\ providerMode["Google"] = "nokey"
    /\ pc' = "bing"
    /\ UNCHANGED << routeFrame, routeVars >>

\* searchUser throws before its first query, the route records it
GoogleThrows ==
    /\ pc = "google"
    /\ providerMode["Google"] = "noengine"
    /\ errors' = Append(errors, ErrorEntry("Google", "Google API credentials non configurees"))
    /\ pc' = "bing"
    /\ UNCHANGED << routeFrame, providerMode, queryIndex, requestLog, providerResults,
                    searchResults, routeResponse >>

\* one iteration of for (const query of queries); the catch logs and goes on
GoogleQuery ==
    /\ pc = "google"
    /\ providerMode["Google"] \notin { "nokey", "noengine" }
    /\ queryIndex <= CutTo(googleQueriesCount)
    /\ requestLog' = Logged(requestLog, "Google")
    /\ providerResults' = IF providerMode["Google"] = "data"
                          THEN providerResults \o GoogleItems(cleanUsername(callUsername), queryIndex)
                          ELSE providerResults
    /\ queryIndex' = queryIndex + 1
    /\ UNCHANGED << routeFrame, pc, providerMode, searchResults, errors, routeResponse >>

\* return this.rankResults(results), then searchResults.push(...googleResults)
GoogleReturns ==
    /\ pc = "google"
    /\ providerMode["Google"] \notin { "nokey", "noengine" }
    /\ queryIndex > CutTo(googleQueriesCount)
    /\ searchResults' = searchResults \o googleRankResults(providerResults)
    /\ requestLog' = Contributed(requestLog, "Google", providerResults)
    /\ providerResults' = << >>
    /\ queryIndex' = 1
    /\ pc' = "bing"
    /\ UNCHANGED << routeFrame, providerMode, errors, routeResponse >>

\* if (options.bing && process.env.BING_API_KEY): the key is missing
BingSkipped ==
    /\ pc = "bing"
    /\ providerMode["Bing"] = "nokey"
    /\ pc' = "telegram"
    /\ UNCHANGED << routeFrame, routeVars >>

\* one iteration of for (const query of queries); the catch breaks on 403 and goes on
\* otherwise
BingQuery ==
    /\ pc = "bing"
    /\ providerMode["Bing"] /= "nokey"
    /\ queryIndex <= CutTo(bingQueriesCount)
    /\ requestLog' = Logged(requestLog, "Bing")
    /\ providerResults' = IF providerMode["Bing"] = "data"
                          THEN providerResults \o BingItems(cleanUsername(callUsername), queryIndex)
                          ELSE providerResults
    /\ queryIndex' = IF providerMode["Bing"] = "forbidden"
                     THEN CutTo(bingQueriesCount) + 1
                     ELSE queryIndex + 1
    /\ UNCHANGED << routeFrame, pc, providerMode, searchResults, errors, routeResponse >>

\* return this.rankResults(results), then searchResults.push(...bingResults)
BingReturns ==
    /\ pc = "bing"
    /\ providerMode["Bing"] /= "nokey"
    /\ queryIndex > CutTo(bingQueriesCount)
    /\ searchResults' = searchResults \o bingRankResults(providerResults)
    /\ requestLog' = Contributed(requestLog, "Bing", providerResults)
    /\ providerResults' = << >>
    /\ queryIndex' = 1
    /\ pc' = "telegram"
    /\ UNCHANGED << routeFrame, providerMode, errors, routeResponse >>

\* if (options.telegramApi && process.env.TELEGRAM_BOT_TOKEN): the token is missing
TelegramSkipped ==
    /\ pc = "telegram"
    /\ providerMode["Telegram"] = "nokey"
    /\ pc' = "reddit"
    /\ UNCHANGED << routeFrame, routeVars >>

\* searchByUsername, then one getChatInfo per popular chat; each catches its own error
TelegramRequest ==
    /\ pc = "telegram"
    /\ providerMode["Telegram"] /= "nokey"
    /\ queryIndex <= 1 + CutTo(popularChatsCount)
    /\ requestLog' = Logged(requestLog, "Telegram")
    /\ providerResults' = IF providerMode["Telegram"] = "data"
                          THEN providerResults \o TelegramItems(cleanUsername(callUsername), queryIndex)
                          ELSE providerResults
    /\ queryIndex' = queryIndex + 1
    /\ UNCHANGED << routeFrame, pc, providerMode, searchResults, errors, routeResponse >>

\* searchViaInline asks no one: each inline bot yields simulated results; then
\* searchResults.push(...telegramResults)
TelegramReturns ==
    /\ pc = "telegram"
    /\ providerMode["Telegram"] /= "nokey"
    /\ queryIndex > 1 + CutTo(popularChatsCount)
    /\ \E inline \in [ 1..CutTo(inlineBotsCount) -> SimulatedItems(cleanUsername(callUsername)) ] :
          providerResults' = providerResults \o ConcatAll(inline)
    /\ searchResults' = searchResults \o providerResults'
    /\ requestLog' = Contributed(requestLog, "Telegram", providerResults')
    /\ queryIndex' = 1
    /\ pc' = "reddit"
    /\ UNCHANGED << routeFrame, providerMode, errors, routeResponse >>

\* searchWithAdvancedOptions on a new service object: authenticate throws, the route
\* records it
RedditAuthFails ==
    /\ pc = "reddit"
    /\ providerMode["Reddit Ultra"] \in { "timeout", "forbidden" }
    /\ errors' = Append(errors,
                   ErrorEntry("Reddit Ultra",
                              "Impossible de s'authentifier avec Reddit API: "
                                 \o (IF providerMode["Reddit Ultra"] = "forbidden"
                                     THEN "401" ELSE "timeout of 10000ms exceeded")))
    /\ providerResults' = << >>
    /\ pc' = "respond"
    /\ UNCHANGED << routeFrame, providerMode, queryIndex, requestLog, searchResults,
                    routeResponse >>

\* searchWithAdvancedOptions on a new service object: the token is granted and the
\* phases run, every query in a try of the service; then
\* searchResults.push(...redditResults)
RedditSearch ==
    /\ pc = "reddit"
    /\ providerMode["Reddit Ultra"] \in { "data", "apitimeout" }
    /\ \E found \in RedditItems(cleanUsername(callUsername)) :
          /\ providerMode["Reddit Ultra"] = "apitimeout" => found = << >>
          /\ \A i \in 1..Len(found) : found[i].confidence >= callOptions.minConfidence[1]
          /\ searchResults' = searchResults \o found
          /\ requestLog' = Contributed(Logged(requestLog, "Reddit Ultra"), "Reddit Ultra", found)
    /\ providerResults' = << >>
    /\ pc' = "respond"
    /\ UNCHANGED << routeFrame, providerMode, queryIndex, errors, routeResponse >>

\* removeDuplicatesAdvanced, sort, slice, res.json
Respond ==
    /\ pc = "respond"
    /\ routeResponse' = [ status |-> 200, success |-> TRUE,
                          results |-> sortedResults(searchResults, requestBody),
                          errors |-> errors ]
    /\ pc' = "responded"
    /\ UNCHANGED << routeFrame, providerMode, queryIndex, requestLog, providerResults,
                    searchResults, errors >>

NextRoute ==
    \/ GoogleSkipped
    \/ GoogleThrows
    \/ GoogleQuery
    \/ GoogleReturns
    \/ BingSkipped
    \/ BingQuery
    \/ BingReturns
    \/ TelegramSkipped
    \/ TelegramRequest
    \/ TelegramReturns
    \/ RedditAuthFails
    \/ RedditSearch
    \/ Respond

SpecRoute == InitRoute /\ [][NextRoute]_vars

(***************************************************************************)
(* Properties of the route                                                  *)
(***************************************************************************)
TimedOutThroughout(provider) ==
    /\ requestLog[provider].sent > 0
    /\ requestLog[provider].timedOut = requestLog[provider].sent

NamedInErrors(provider) ==
    \E i \in 1..Len(routeResponse.errors) :
        /\ routeResponse.errors[i].service = provider
        /\ routeResponse.errors[i].error /= ""

OthersReturned(provider) ==
    /\ routeResponse.success
    /\ (\E other \in Providers \ { provider } : requestLog[other].results > 0)
          => routeResponse.results /= << >>

\* C7: when the request is answered, a provider whose every query timed out has
\* contributed no result and is named by an entry of errors, and the response is a
\* success that holds results if another provider returned any.
C7_TimedOutProviderIsReported ==
    pc = "responded" =>
        \A provider \in Providers :
            TimedOutThroughout(provider) =>
                /\ requestLog[provider].results = 0
                /\ NamedInErrors(provider)
                /\ OthersReturned(provider)

\* a provider fails with an authentication or configuration error: it answers 401 or
\* 403, or a credential of it is missing
Misconfigured(provider) == providerMode[provider] \in { "forbidden", "nokey", "noengine" }

\* C8: when the request is answered, a provider that failed with an authentication or
\* configuration error was sent no query after that failure and is named, with a
\* message, by an entry of errors, and the response is a success that holds the
\* results of the other providers.
C8_MisconfiguredProviderIsSkippedAndReported ==
    pc = "responded" =>
        \A provider \in Providers :
            Misconfigured(provider) =>
                /\ requestLog[provider].afterRefusal = 0
                /\ NamedInErrors(provider)
                /\ OthersReturned(provider)

(***************************************************************************)
(* The result cache of one service object when it is nearly full: writes    *)
(* (setCachedResults), reads (getCachedResults) and the passing of time     *)
(***************************************************************************)
\* the writes of one execution, and the entries a nearly full cache may lack
MaxCacheWrites == 2
MaxCacheRoom == 1

UserName(n) == "user" \o ToString(n)

NoOptions ==
    [ useCache |-> Absent, maxResults |-> Absent, minConfidence |-> Absent,
      subredditFilter |-> Absent ]

KeyOf(n) == getCacheKey(UserName(n), NoOptions)

\* the usernames the writes and reads are for: two that are in the cache at the start
\* and two that are not
CacheUsers == { 1, cacheCapacity \div 2, cacheCapacity + 1, cacheCapacity + 2 }

\* a cache of n entries that were all written at time 0 and then, but for the one at
\* position stale, written again at time TickMs
FilledCache(n, stale) ==
    [ i \in 1..n |->
        [ key |-> KeyOf(i), data |-> << >>,
          timestamp |-> IF i = stale THEN 0 ELSE TickMs ] ]

InitCache ==
    /\ pc = "cache"
    /\ callUsername = ""
    /\ callOptions = NoOptions
    /\ allResults = << >>
    /\ rawLinks = << >>
    /\ forEachIndex = 0
    /\ uniqueLinks = << >>
    /\ stageLinks = << >>
    /\ filteredResults = << >>
    /\ \E n \in (cacheCapacity - MaxCacheRoom)..cacheCapacity :
          \E stale \in { 1, cacheCapacity \div 2, n } :
              cache = FilledCache(n, stale)
    /\ tokenExpiry = 0
    /\ now = TickMs
    /\ via = "service"
    /\ requestBody = NoBody
    /\ authCalls = 0
    /\ queryCalls = 0
    /\ returned = NothingReturned
    /\ callCount = 0
    /\ RunIdle
    /\ RouteIdle
    /\ SharedIdle
    /\ TaskIdle

\* setCachedResults(username, options, results)
CacheWrite ==
    /\ pc = "cache"
    /\ callCount < MaxCacheWrites
    /\ \E n \in CacheUsers :
          /\ callUsername' = UserName(n)
          /\ cache' = setCachedResults(cache, KeyOf(n), << >>, now)
    /\ callCount' = callCount + 1
    /\ returned' = NothingReturned
    /\ UNCHANGED << runVars, routeVars, sharedVars, taskVars, pc, callOptions, allResults, dedupVars, stageLinks,
                    filteredResults, tokenExpiry, now, via, requestBody, authCalls,
                    queryCalls >>

\* getCachedResults(username, options): cached.data or null
CacheRead ==
    /\ pc = "cache"
    /\ \E n \in CacheUsers :
          /\ callUsername' = UserName(n)
          /\ returned' = IF CacheIsFresh(cache, KeyOf(n), now)
                         THEN Response("cached", getCachedResults(cache, KeyOf(n)))
                         ELSE NothingReturned
    /\ UNCHANGED << runVars, routeVars, sharedVars, taskVars, pc, callOptions, allResults, dedupVars, stageLinks,
                    filteredResults, serviceVars, via, requestBody, authCalls, queryCalls,
                    callCount >>

\* time passes
CacheTick ==
    /\ pc = "cache"
    /\ now < (1 + MaxTicks) * TickMs
    /\ now' = now + TickMs
    /\ UNCHANGED << runVars, routeVars, sharedVars, taskVars, pc, callVars, allResults, dedupVars, stageLinks,
                    filteredResults, cache, tokenExpiry, aggregateVars >>

NextCache ==
    \/ CacheWrite
    \/ CacheRead
    \/ CacheTick

SpecCache == InitCache /\ [][NextCache]_vars

(***************************************************************************)
(* Properties of the cache                                                  *)
(***************************************************************************)
CacheKeys(map) == { map[i].key : i \in 1..Len(map) }

\* the entries a step removes from the cache
Evicted == { i \in 1..Len(cache) : cache[i].key \notin CacheKeys(cache') }

\* C15: the cache never holds more than 100 entries; a step removes an entry only when
\* a write would take the cache over 100, and then it removes one entry, whose write
\* time is the oldest of all, and not the entry just written; a read changes nothing of
\* the cache, so it has no say in what is removed.
C15_CapacityAndOldestEvicted ==
    /\ [](Len(cache) <= 100)
    /\ [][ /\ callCount' = callCount => cache' = cache
           /\ callCount' /= callCount =>
                /\ getCacheKey(callUsername', callOptions') \in CacheKeys(cache')
                /\ Evicted /= {} =>
                     /\ Len(cache) = 100
                     /\ Len(cache') = 100
                     /\ Cardinality(Evicted) = 1
                     /\ \A i \in Evicted :
                          /\ cache[i].key /= getCacheKey(callUsername', callOptions')
                          /\ \A j \in 1..Len(cache) :
                                cache[i].timestamp <= cache[j].timestamp ]_vars

\* two writes of new usernames to a full cache: both are in the cache, and the entry
\* that had the oldest write time, in the middle of the cache, is gone
C15_Witness ==
    /\ callCount = 2
    /\ Len(cache) = cacheCapacity
    /\ KeyOf(cacheCapacity + 1) \in CacheKeys(cache)
    /\ KeyOf(cacheCapacity + 2) \in CacheKeys(cache)
    /\ KeyOf(cacheCapacity \div 2) \notin CacheKeys(cache)

(***************************************************************************)
(* Searches that run at the same time on one GoogleSearchService object and *)
(* one RedditUltraSearchService object.  Each search sends its Google       *)
(* queries, then authenticates with Reddit and sends a Reddit query; the    *)
(* searches interleave at every await.                                      *)
(***************************************************************************)
Runs == { 1, 2 }

\* what a search has seen: where it is, the Google queries it has sent, the 429 answers
\* it got, the delay it last waited, the token its authenticate returned and the token
\* its Reddit query carried
RunAt(at, queries, limited, delayed, token, sent) ==
    [ at |-> at, queries |-> queries, limited |-> limited, delayed |-> delayed,
      token |-> token, sent |-> sent ]

InitShared ==
    /\ pc = "shared"
    /\ callUsername \in UserPool
    /\ callOptions = NoOptions
    /\ allResults = << >>
    /\ rawLinks = << >>
    /\ forEachIndex = 0
    /\ uniqueLinks = << >>
    /\ stageLinks = << >>
    /\ filteredResults = << >>
    /\ AggregateIdle
    /\ RunIdle
    /\ RouteIdle
    /\ accessToken = 0
    /\ googleRequestDelay = googleInitialDelay
    /\ runs = [ r \in Runs |-> RunAt("google", 0, 0, 0, 0, 0) ]
    /\ TaskIdle

sharedFrame == << pc, callVars, allResults, dedupVars, stageLinks, filteredResults, cache, now,
                 aggregateVars, runVars, routeVars, taskVars >>

\* searchUser of googleSearch.js: a query is answered, and the search waits
\* this.requestDelay
GoogleQueryAnswered(r) ==
    /\ runs[r].at = "google"
    /\ runs[r].queries < CutTo(googleQueriesCount)
    /\ runs' = [ runs EXCEPT ![r].queries = @ + 1, ![r].delayed = googleRequestDelay ]
    /\ UNCHANGED << sharedFrame, tokenExpiry, accessToken, googleRequestDelay >>

\* ... or it is answered 429: this.requestDelay += 500, and no wait
GoogleQueryLimited(r) ==
    /\ runs[r].at = "google"
    /\ runs[r].queries < CutTo(googleQueriesCount)
    /\ googleRequestDelay' = googleRequestDelay + delayIncrement
    /\ runs' = [ runs EXCEPT ![r].queries = @ + 1, ![r].limited = @ + 1 ]
    /\ UNCHANGED << sharedFrame, tokenExpiry, accessToken >>

\* ... after the last query searchUser returns
GoogleDone(r) ==
    /\ runs[r].at = "google"
    /\ runs[r].queries = CutTo(googleQueriesCount)
    /\ runs' = [ runs EXCEPT ![r].at = "authenticate" ]
    /\ UNCHANGED << sharedFrame, tokenExpiry, accessToken, googleRequestDelay >>

\* authenticate: a token that has not expired is returned without a request
TokenReused(r) ==
    /\ runs[r].at = "authenticate"
    /\ accessToken /= 0 /\ tokenExpiry /= 0 /\ now < tokenExpiry
    /\ runs' = [ runs EXCEPT ![r].at = "search", ![r].token = accessToken ]
    /\ UNCHANGED << sharedFrame, tokenExpiry, accessToken, googleRequestDelay >>

\* ... otherwise the token request is sent and awaited
TokenRequested(r) ==
    /\ runs[r].at = "authenticate"
    /\ ~(accessToken /= 0 /\ tokenExpiry /= 0 /\ now < tokenExpiry)
    /\ runs' = [ runs EXCEPT ![r].at = "token" ]
    /\ UNCHANGED << sharedFrame, tokenExpiry, accessToken, googleRequestDelay >>

\* ... and its answer, a new token, is stored in the fields of the object and returned
TokenGranted(r) ==
    /\ runs[r].at = "token"
    /\ accessToken' = accessToken + 1
    /\ \E expires_in \in ExpiresInPool :
          tokenExpiry' = now + expires_in * 1000 - 60000
    /\ runs' = [ runs EXCEPT ![r].at = "search", ![r].token = accessToken' ]
    /\ UNCHANGED << sharedFrame, googleRequestDelay >>

\* performSearch: the request carries Authorization: Bearer this.accessToken
RedditQuerySent(r) ==
    /\ runs[r].at = "search"
    /\ runs' = [ runs EXCEPT ![r].at = "done", ![r].sent = accessToken ]
    /\ UNCHANGED << sharedFrame, tokenExpiry, accessToken, googleRequestDelay >>

NextShared ==
    \E r \in Runs :
        \/ GoogleQueryAnswered(r)
        \/ GoogleQueryLimited(r)
        \/ GoogleDone(r)
        \/ TokenReused(r)
        \/ TokenRequested(r)
        \/ TokenGranted(r)
        \/ RedditQuerySent(r)

SpecShared == InitShared /\ [][NextShared]_vars

(***************************************************************************)
(* Properties of searches that share service objects                        *)
(***************************************************************************)
\* the search that takes the step
Stepping(r) == runs'[r] /= runs[r]

\* C17: searches that run at the same time on the same service objects do not touch
\* each other through the fields of the objects: a step of one search writes no field
\* (access token, token expiry, request delay) while another search is under way, the
\* delay a search waits after a Google query is no longer than its own 429 answers
\* have made the delay of the object, and the token its Reddit query carries is the token its own
\* authenticate returned.
C17_RunsShareOnlyTheCache ==
    /\ [][ \A r \in Runs :
              (Stepping(r) /\ \E q \in Runs \ { r } : runs[q].at /= "done")
                 => /\ accessToken' = accessToken
                    /\ tokenExpiry' = tokenExpiry
                    /\ googleRequestDelay' = googleRequestDelay ]_vars
    /\ [](\A r \in Runs :
             /\ runs[r].delayed /= 0 =>
                   runs[r].delayed <= googleInitialDelay + delayIncrement * runs[r].limited
             /\ runs[r].sent /= 0 => runs[r].sent = runs[r].token)

(***************************************************************************)
(* ultraQualityFilter applied to lists of scored candidates of every sort,  *)
(* then the ranking and the filtering of searchWithAdvancedOptions          *)
(***************************************************************************)
\* the longest list the filter is given
MaxFilterInput == 3

\* identifiers: the search identifier, one near it, a reserved word, a suspicious word,
\* a word that is both, and one of four characters
FilterUsernames == { "sample_chan", "sample_chat", "telegram", "example", "admin", "abcd" }

\* confidences around the threshold of the filter
FilterConfidences == { Pt(29), Pt(30), Pt(100) }

\* a scored candidate of the first post of the pool
ScoredCandidate(name, points) ==
    [ url |-> constructTelegramUrl(name, FALSE, ""),
      username |-> name,
      confidence |-> points,
      searchMethod |-> "ultra_extraction",
      origin |-> "pattern",
      isInviteLink |-> FALSE,
      patternMatched |-> 0,
      redditSource |-> RedditSourceOf(createResultFromPost(PostPool[1], "sample_chan",
                                                           "standard_search")),
      mergedSources |-> << >> ]

\* the lists of candidates of different identifiers, as deduplication leaves them
FilterInputs ==
    { links \in SeqsUpTo({ ScoredCandidate(n, c) : n \in FilterUsernames,
                                                   c \in FilterConfidences },
                         MaxFilterInput) :
        \A i, j \in 1..Len(links) : i /= j => links[i].username /= links[j].username }

\* rawLinks keeps the list as it is handed to the filter
InitFilter ==
    /\ pc = "filter"
    /\ callUsername \in UserPool
    /\ callOptions = [ minConfidence |-> 0, maxResults |-> 1000, subredditFilter |-> "" ]
    /\ allResults = << >>
    /\ stageLinks \in FilterInputs
    /\ rawLinks = stageLinks
    /\ forEachIndex = 0
    /\ uniqueLinks = << >>
    /\ filteredResults = << >>
    /\ AggregateIdle
    /\ RunIdle
    /\ RouteIdle
    /\ SharedIdle
    /\ TaskIdle

NextFilter ==
    \/ QualityFilter
    \/ Rank
    \/ ReturnResults

SpecFilter == InitFilter /\ [][NextFilter]_vars

\* the filter was given three candidates: one of confidence just under 30, one with a
\* reserved identifier, and one of confidence 30, and kept the last alone
C22_Witness ==
    /\ pc = "rank"
    /\ Len(rawLinks) = 3
    /\ \E l \in Range(rawLinks) : TooWeak(l) /\ ~TooShort(l) /\ ~Reserved(l) /\ ~Suspicious(l)
    /\ \E l \in Range(rawLinks) : Reserved(l) /\ ~TooWeak(l) /\ ~Suspicious(l)
    /\ Len(stageLinks) = 1
    /\ stageLinks[1].confidence = Pt(30)

(***************************************************************************)
(* The pipeline on raw hits whose text holds malformed links                *)
(***************************************************************************)
InitMalformed ==
    /\ pc = "extract"
    /\ callUsername \in UserPool
    /\ callOptions = [ minConfidence |-> 0, maxResults |-> 1000, subredditFilter |-> "" ]
    /\ allResults \in SeqsUpTo(MalformedHitPool(callUsername), MaxHits)
    /\ rawLinks = << >>
    /\ forEachIndex = 0
    /\ uniqueLinks = << >>
    /\ stageLinks = << >>
    /\ filteredResults = << >>
    /\ AggregateIdle
    /\ RunIdle
    /\ RouteIdle
    /\ SharedIdle
    /\ TaskIdle

SpecMalformed == InitMalformed /\ [][NextPipe]_vars

(***************************************************************************)
(* The deduplication of the /telegram route on drawn results                *)
(***************************************************************************)
MaxMergeInput == 2

MergeUrls == { "https://t.me/sample_chan", "https://T.me/sample_chan" }
MergeConfidences == { 75, 85 }

\* the results of the web providers carry neither property; those of the Reddit service
\* carry the post they were found in and, once its own deduplication has merged
\* another post into them, a non-empty mergedSources
MergeResults ==
    { WebResult(url, "Google Search API", c) : url \in MergeUrls, c \in MergeConfidences }
    \cup { RouteResult(url, "Telegram (ULTRA Reddit)", c, Given(post), merged) :
             url \in MergeUrls, c \in MergeConfidences,
             post \in { "r/telegram", "r/crypto" }, merged \in { Absent, Given(<< "r/channels" >>) } }

compositeKey(result) == toLowerCase(result.url)

\* the Reddit service has deduplicated its own results
MergeInputs ==
    { results \in SeqsUpTo(MergeResults, MaxMergeInput) :
        \A i, j \in 1..Len(results) :
            (/\ i < j
             /\ results[i].redditSource /= Absent
             /\ results[j].redditSource /= Absent)
            => compositeKey(results[i]) /= compositeKey(results[j]) }

InitMerge ==
    /\ pc = "respond"
    /\ callUsername \in UserPool
    /\ callOptions = RedditUltraOptions(NoBody)
    /\ allResults = << >>
    /\ rawLinks = << >>
    /\ forEachIndex = 0
    /\ uniqueLinks = << >>
    /\ stageLinks = << >>
    /\ filteredResults = << >>
    /\ AggregateIdle
    /\ RunIdle
    /\ providerMode = [ p \in Providers |-> "data" ]
    /\ queryIndex = 1
    /\ requestLog = [ p \in Providers |-> NothingLogged ]
    /\ providerResults = << >>
    /\ searchResults \in MergeInputs
    /\ errors = << >>
    /\ routeResponse = << >>
    /\ SharedIdle
    /\ TaskIdle

NextMerge == Respond

SpecMerge == InitMerge /\ [][NextMerge]_vars

SameKeyAs(results, out) ==
    { i \in 1..Len(results) : compositeKey(results[i]) = compositeKey(out) }

\* the result that stays: the first of those of the highest confidence
SurvivorIndex(results, group) ==
    CHOOSE i \in group :
        \A j \in group : /\ results[j].confidence <= results[i].confidence
                         /\ (results[j].confidence = results[i].confidence => i <= j)

MergedEntries(result) == Range(OptionOr(result.mergedSources, << >>))

\* C28: when the deduplication of the route has merged results of one key, the
\* mergedSources of the result that stays holds every mergedSources entry of each of
\* them and the redditSource of each one that was dropped
C28_MergeKeepsEverySource ==
    pc = "responded" =>
        \A k \in 1..Len(routeResponse.results) :
            LET out == routeResponse.results[k]
                group == SameKeyAs(searchResults, out)
                survivor == SurvivorIndex(searchResults, group)
            IN Cardinality(group) >= 2 =>
                \A i \in group :
                    /\ MergedEntries(searchResults[i]) \subseteq MergedEntries(out)
                    /\ (i /= survivor /\ searchResults[i].redditSource /= Absent)
                         => searchResults[i].redditSource[1] \in MergedEntries(out)

(***************************************************************************)
(* The operations of one TaskOrchestrator.  comprehensiveSearch and         *)
(* crossReference await between registering their task and closing it, so   *)
(* calls of them interleave; timelineAnalysis has no await and runs from    *)
(* its first statement to its last in one step.                             *)
(***************************************************************************)
MaxOperations == 2
MaxRandom == 2
MaxTaskTicks == 1

Operations == 1..MaxOperations

AwaitingTypes == { "comprehensive_search", "cross_reference" }

\* `${type}_${Date.now()}_${Math.random().toString(36).substr(2, 6)}`
generateTaskId(type, time, random) == << type, time, random >>

\* where a call is; parameters is the argument of the call, one per call
OperationAt(at, type, taskId) == [ at |-> at, type |-> type, taskId |-> taskId ]

\* the object of this.activeTasks.set(taskId, {...})
NewTask(type, startTime, parameters) ==
    [ type |-> type, status |-> "running", startTime |-> startTime, parameters |-> parameters,
      result |-> Absent, error |-> Absent, endTime |-> Absent ]

Orchestrator(active, history) == [ activeTasks |-> active, taskHistory |-> history ]

\* Map.prototype.set and Map.prototype.delete
TasksSet(map, key, value) ==
    [ k \in (DOMAIN map) \cup { key } |-> IF k = key THEN value ELSE map[k] ]
TasksDelete(map, key) == [ k \in (DOMAIN map) \ { key } |-> map[k] ]

completeTask(orchestrator, taskId, result, time) ==
    IF taskId \in DOMAIN orchestrator.activeTasks
    THEN LET task == [ orchestrator.activeTasks[taskId] EXCEPT
                         !.status = "completed", !.result = Given(result),
                         !.endTime = Given(time) ]
         IN Orchestrator(TasksDelete(orchestrator.activeTasks, taskId),
                         Append(orchestrator.taskHistory, task))
    ELSE orchestrator

failTask(orchestrator, taskId, error, time) ==
    IF taskId \in DOMAIN orchestrator.activeTasks
    THEN LET task == [ orchestrator.activeTasks[taskId] EXCEPT
                         !.status = "failed", !.error = Given(error),
                         !.endTime = Given(time) ]
         IN Orchestrator(TasksDelete(orchestrator.activeTasks, taskId),
                         Append(orchestrator.taskHistory, task))
    ELSE orchestrator

InitTasks ==
    /\ pc = "tasks"
    /\ callUsername \in UserPool
    /\ callOptions = NoOptions
    /\ allResults = << >>
    /\ rawLinks = << >>
    /\ forEachIndex = 0
    /\ uniqueLinks = << >>
    /\ stageLinks = << >>
    /\ filteredResults = << >>
    /\ AggregateIdle
    /\ RunIdle
    /\ RouteIdle
    /\ SharedIdle
    /\ activeTasks = << >>
    /\ taskHistory = << >>
    /\ operations = [ o \in Operations |-> OperationAt("idle", "", << >>) ]

taskFrame == << pc, callVars, allResults, dedupVars, stageLinks, filteredResults, cache,
               tokenExpiry, aggregateVars, runVars, routeVars, sharedVars >>

\* comprehensiveSearch or crossReference up to its first await
OperationStarts(o, type, random) ==
    /\ operations[o].at = "idle"
    /\ LET taskId == generateTaskId(type, now, random)
       IN /\ activeTasks' = TasksSet(activeTasks, taskId, NewTask(type, now, o))
          /\ operations' = [ operations EXCEPT ![o] = OperationAt("running", type, taskId) ]
    /\ UNCHANGED << taskFrame, now, taskHistory >>

\* the rest of the try block: the result, completeTask, return
OperationReturns(o) ==
    /\ operations[o].at = "running"
    /\ operations[o].taskId \in DOMAIN activeTasks
    /\ LET after == completeTask(Orchestrator(activeTasks, taskHistory), operations[o].taskId,
                                 operations[o].taskId, now)
       IN /\ activeTasks' = after.activeTasks
          /\ taskHistory' = after.taskHistory
    /\ operations' = [ operations EXCEPT ![o].at = "returned" ]
    /\ UNCHANGED << taskFrame, now >>

\* this.activeTasks.get(taskId).startTime when the Map has no such key: a TypeError,
\* caught by the catch block
DurationThrows(o) ==
    /\ operations[o].at = "running"
    /\ operations[o].taskId \notin DOMAIN activeTasks
    /\ LET after == failTask(Orchestrator(activeTasks, taskHistory), operations[o].taskId,
                             "TypeError", now)
       IN /\ activeTasks' = after.activeTasks
          /\ taskHistory' = after.taskHistory
    /\ operations' = [ operations EXCEPT ![o].at = "thrown" ]
    /\ UNCHANGED << taskFrame, now >>

\* an awaited step rejects: the catch block, failTask, throw
OperationThrows(o) ==
    /\ operations[o].at = "running"
    /\ LET after == failTask(Orchestrator(activeTasks, taskHistory), operations[o].taskId,
                             "Error", now)
       IN /\ activeTasks' = after.activeTasks
          /\ taskHistory' = after.taskHistory
    /\ operations' = [ operations EXCEPT ![o].at = "thrown" ]
    /\ UNCHANGED << taskFrame, now >>

\* timelineAnalysis from its first statement to its return or its throw
TimelineAnalysis(o, random, throws) ==
    /\ operations[o].at = "idle"
    /\ LET taskId == generateTaskId("timeline_analysis", now, random)
           started == Orchestrator(TasksSet(activeTasks, taskId,
                                          NewTask("timeline_analysis", now, o)),
                                   taskHistory)
           after == IF throws THEN failTask(started, taskId, "Error", now)
                    ELSE completeTask(started, taskId, taskId, now)
       IN /\ activeTasks' = after.activeTasks
          /\ taskHistory' = after.taskHistory
          /\ operations' = [ operations EXCEPT ![o] =
                 OperationAt(IF throws THEN "thrown" ELSE "returned",
                             "timeline_analysis", taskId) ]
    /\ UNCHANGED << taskFrame, now >>

\* a millisecond passes
TaskTick ==
    /\ now < MaxTaskTicks
    /\ now' = now + 1
    /\ UNCHANGED << taskFrame, taskVars >>

NextTasks ==
    \/ \E o \in Operations, type \in AwaitingTypes, random \in 1..MaxRandom :
          OperationStarts(o, type, random)
    \/ \E o \in Operations : OperationReturns(o)
    \/ \E o \in Operations : DurationThrows(o)
    \/ \E o \in Operations : OperationThrows(o)
    \/ \E o \in Operations, random \in 1..MaxRandom, throws \in BOOLEAN :
          TimelineAnalysis(o, random, throws)
    \/ TaskTick

SpecTasks == InitTasks /\ [][NextTasks]_vars

\* the places of the task object of a call
ActiveAs(o) == { taskId \in DOMAIN activeTasks : activeTasks[taskId].parameters = o }
HistoryOf(o) == { i \in 1..Len(taskHistory) : taskHistory[i].parameters = o }

\* C29: the task of an operation that has returned or thrown is not in activeTasks and
\* is in taskHistory exactly once, 'completed' if the operation returned and 'failed'
\* if it threw; and no task is in activeTasks and in taskHistory at once
C29_TaskClosedOnceWithOutcome ==
    \A o \in Operations :
        /\ operations[o].at \in { "returned", "thrown" } =>
              /\ ActiveAs(o) = {}
              /\ Cardinality(HistoryOf(o)) = 1
              /\ \A i \in HistoryOf(o) :
                    taskHistory[i].status =
                        (IF operations[o].at = "returned" THEN "completed" ELSE "failed")
        /\ ~(ActiveAs(o) /= {} /\ HistoryOf(o) /= {})

(***************************************************************************)
(* rankResults of BingSearchService on drawn results                        *)
(***************************************************************************)
MaxRankInput == 3

\* what processResults of BingSearchService gives a result that the comparator reads
BingResult(verified, confidence, type, members) ==
    [ verified |-> verified, confidence |-> confidence, type |-> type, members |-> members ]

\* calculateConfidence: 55 + 20 + 18 (a t.me url with the username), 55 + 20 + 12 + 10
\* (title with the username and 'group'), min(55 + 20 + 18 + 12, 100)
BingConfidences == { 93, 97, 100 }

BingResults ==
    { BingResult(verified, confidence, type, 0) :
        verified \in BOOLEAN, confidence \in BingConfidences,
        type \in { "channel", "group", "user" } }

typeWeight(type) ==
    CASE type = "channel" -> 3
      [] type = "group" -> 2
      [] type = "user" -> 1
      [] OTHER -> 0

Abs(n) == IF n < 0 THEN 0 - n ELSE n

\* the comparator of rankResults: negative when a comes before b
bingRankCompare(a, b) ==
    IF a.verified /\ ~b.verified THEN 0 - 1
    ELSE IF ~a.verified /\ b.verified THEN 1
    ELSE IF Abs(b.confidence - a.confidence) > rankTolerance THEN b.confidence - a.confidence
    ELSE IF typeWeight(b.type) /= typeWeight(a.type) THEN typeWeight(b.type) - typeWeight(a.type)
    ELSE b.members - a.members

\* results.sort(comparator): each result goes before the first one it compares
\* before
InsertByBingRank(sorted, result) ==
    LET before == { j \in 1..Len(sorted) : bingRankCompare(result, sorted[j]) < 0 }
        at == IF before = {} THEN Len(sorted) + 1 ELSE CHOOSE j \in before : \A k \in before : j <= k
    IN SubSeq(sorted, 1, at - 1) \o << result >> \o SubSeq(sorted, at, Len(sorted))

RECURSIVE BingRankFrom(_, _, _)
BingRankFrom(sorted, results, i) ==
    IF i > Len(results) THEN sorted
    ELSE BingRankFrom(InsertByBingRank(sorted, results[i]), results, i + 1)

InitRank ==
    /\ pc = "bingrank"
    /\ callUsername \in UserPool
    /\ callOptions = RedditUltraOptions(NoBody)
    /\ allResults = << >>
    /\ rawLinks = << >>
    /\ forEachIndex = 0
    /\ uniqueLinks = << >>
    /\ stageLinks = << >>
    /\ filteredResults = << >>
    /\ AggregateIdle
    /\ RunIdle
    /\ providerMode = [ p \in Providers |-> "data" ]
    /\ queryIndex = 1
    /\ requestLog = [ p \in Providers |-> NothingLogged ]
    /\ providerResults \in SeqsUpTo(BingResults, MaxRankInput)
    /\ searchResults = << >>
    /\ errors = << >>
    /\ routeResponse = << >>
    /\ SharedIdle
    /\ TaskIdle

\* return this.rankResults(results)
BingRanks ==
    /\ pc = "bingrank"
    /\ providerResults' = BingRankFrom(<< >>, providerResults, 1)
    /\ pc' = "bingranked"
    /\ UNCHANGED << routeFrame, providerMode, queryIndex, requestLog, searchResults, errors,
                    routeResponse >>

NextRank == BingRanks

SpecRank == InitRank /\ [][NextRank]_vars

RanksBefore(a, b) == bingRankCompare(a, b) < 0

\* C30: the comparison of rankResults is transitive on the results it has ranked: when
\* a ranks before b and b ranks before c, a ranks before c
C30_BingComparisonTransitive ==
    pc = "bingranked" =>
        \A a, b, c \in Range(providerResults) :
            (RanksBefore(a, b) /\ RanksBefore(b, c)) => RanksBefore(a, c)

====
